---------------------------- MODULE Spec2Model ----------------------------
(***************************************************************************)
(* A model of the texttable tabular-data engine: the table store           *)
(* (TextTableModel), the filter/sort view (FilterProxyModel) and the       *)
(* undo engine and command handlers of MainWindow.                         *)
(*                                                                         *)
(* Text is a sequence of one-character strings, so that splitting,         *)
(* joining, case folding and code-point comparison are computed as Python  *)
(* computes them.  Column and row arguments are 0-based as in the source;  *)
(* sequences are 1-based, hence the "+ 1" in the translations.             *)
(***************************************************************************)
EXTENDS Integers, Sequences, FiniteSets, TLC

VARIABLES
    headers,        \* TextTableModel._headers
    data,           \* TextTableModel._data
    row_ids,        \* TextTableModel._row_ids
    undo_stack,     \* MainWindow._undo_stack, snapshots <<data, headers>>
    redo_stack,     \* MainWindow._redo_stack
    global_filter,  \* FilterProxyModel._global_filter
    rules,          \* FilterProxyModel._rules
    sort_spec,      \* the proxy's sort column (-1: unsorted) and order, <<column, descending>>
    whole_row_sort, \* FilterProxyModel._whole_row_sort: "none", "asc" or "desc"
    origin,         \* history: for each stored row, the identifier it entered the store with
    last,           \* history: <<the last handler that ran, preview count, rows removed>>
    pushed,         \* history: the snapshots the commands took, while only commands ran
    first,          \* history: <<commands made, undos made after them, phase>>
    group_dialog,   \* the GroupDialog last opened: its headers, data, checked columns, result model
    parse_thread,   \* MainWindow._parse_thread: <<>> for None, else <<t>>, the t-th thread made
    threads,        \* the QThreads made, each with its ParseWorker: text, delimiter, position
    events,         \* the queued signal deliveries waiting in the foreground event loop
    qsettings,      \* SettingsManager._settings: for each JSON-backed key, the value stored
    steps           \* the number of calls the behaviour may still make

vars == <<headers, data, row_ids, undo_stack, redo_stack, global_filter, rules,
          sort_spec, whole_row_sort, origin, last, pushed, first, group_dialog,
          parse_thread, threads, events, qsettings, steps>>

\* What belongs to the grouping dialog and to the background parse.
bgvars == <<group_dialog, parse_thread, threads, events, qsettings>>

\* The keys SettingsManager keeps JSON text under.
SettingsKeys ==
    {"columns/state", "filters/active", "export/templates", "filters/templates",
     "session/recent_files", "session/last_files", "plugins/settings"}

\* A key QSettings has no value for, and a key holding a text.
absent == [present |-> FALSE, text |-> <<>>]
stored(text) == [present |-> TRUE, text |-> text]

-----------------------------------------------------------------------------
(* Text.  The one-character strings "Col", "Part" and "Merged" stand for  *)
(* the CJK words of the generated header names.                            *)

\* The characters of the model, in code-point order.
Chars == <<" ", "(", "-", "0", "1", "2", "A", "B", "Y", "a", "b", "c", "x", "y", "z">>

Ord(c) == CHOOSE i \in 1..Len(Chars) : Chars[i] = c

Min(S) == CHOOSE x \in S : \A y \in S : x <= y
Max(S) == CHOOSE x \in S : \A y \in S : y <= x

Range(s) == {s[i] : i \in 1..Len(s)}

\* s < t for Python str (and QString::compare): code-point lexicographic.
StrLess(s, t) ==
    \E k \in 1..(Len(t)) :
        /\ \A j \in 1..(k - 1) : j <= Len(s) /\ s[j] = t[j]
        /\ k - 1 <= Len(s)
        /\ \/ Len(s) = k - 1
           \/ Len(s) >= k /\ Ord(s[k]) < Ord(t[k])

LowerChar(c) == CASE c = "A" -> "a" [] c = "B" -> "b" [] c = "Y" -> "y" [] OTHER -> c

\* str.lower()
lower(s) == [i \in 1..Len(s) |-> LowerChar(s[i])]

\* needle in hay
Contains(needle, hay) ==
    \E i \in 0..(Len(hay) - Len(needle)) :
        \A j \in 1..Len(needle) : hay[i + j] = needle[j]

startswith(hay, needle) ==
    Len(needle) <= Len(hay) /\ \A j \in 1..Len(needle) : hay[j] = needle[j]

endswith(hay, needle) ==
    Len(needle) <= Len(hay)
    /\ \A j \in 1..Len(needle) : hay[Len(hay) - Len(needle) + j] = needle[j]

\* str.strip(): leading and trailing whitespace removed.
strip(s) ==
    LET nonblank == {i \in 1..Len(s) : s[i] \notin {" ", "\n"}}
    IN  IF nonblank = {} THEN <<>> ELSE SubSeq(s, Min(nonblank), Max(nonblank))

\* s.split(d) for a non-empty delimiter d.
RECURSIVE Split(_, _)
Split(s, d) ==
    LET hits == {i \in 0..(Len(s) - Len(d)) : \A j \in 1..Len(d) : s[i + j] = d[j]}
    IN  IF hits = {} THEN <<s>>
        ELSE LET i == Min(hits)
             IN  <<SubSeq(s, 1, i)>> \o Split(SubSeq(s, i + Len(d) + 1, Len(s)), d)

\* d.join(parts)
RECURSIVE Join(_, _)
Join(d, parts) ==
    IF parts = <<>> THEN <<>>
    ELSE IF Len(parts) = 1 THEN parts[1]
    ELSE parts[1] \o d \o Join(d, Tail(parts))

Digits == <<"0", "1", "2", "3", "4", "5", "6", "7", "8", "9">>

\* str(n) for n >= 0
RECURSIVE Str(_)
Str(n) == IF n < 10 THEN <<Digits[n + 1]>> ELSE Str(n \div 10) \o <<Digits[(n % 10) + 1]>>

\* Python list helpers: del xs[i], xs[:i], xs[i:] (0-based i, 0 <= i).
DelAt(xs, i) == [k \in 1..(Len(xs) - 1) |-> IF k <= i THEN xs[k] ELSE xs[k + 1]]
Take(xs, i) == SubSeq(xs, 1, IF i < Len(xs) THEN i ELSE Len(xs))
Drop(xs, i) == SubSeq(xs, i + 1, Len(xs))
SetAt(xs, i, v) == [xs EXCEPT ![i + 1] = v]

\* sorted(xs, reverse=True) for a list of integers.
RECURSIVE SortDesc(_)
SortDesc(xs) ==
    IF xs = <<>> THEN <<>>
    ELSE LET m == Max(Range(xs))
             k == Min({i \in 1..Len(xs) : xs[i] = m})
         IN  <<m>> \o SortDesc(DelAt(xs, k - 1))

Reverse(xs) == [i \in 1..Len(xs) |-> xs[Len(xs) + 1 - i]]

\* sorted(xs)
SortAsc(xs) == Reverse(SortDesc(xs))

-----------------------------------------------------------------------------
(* The table store: TextTableModel.  A store value st is the record of the *)
(* three fields; each method is an operator from the store before the call *)
(* to the store after it.  A method that raises leaves the store as the    *)
(* statements executed before the exception left it.                       *)

Store(h, d, ids) == [headers |-> h, data |-> d, row_ids |-> ids]

\* The rows loop "for row_index, row in enumerate(self._data)": Ok(row, i)
\* says the body runs to its end on row i (0-based), New(row, i) is the row
\* it stores, and Part(row, i) is what a body that raised left in the row.
\* The loop stops at the first row whose body raises.
FirstFail(d, okAt) ==
    LET bad == {i \in 1..Len(d) : ~okAt[i]}
    IN  IF bad = {} THEN Len(d) + 1 ELSE Min(bad)

\* self._normalize_data(data)
normalize_data(d) ==
    LET max_cols == IF d = <<>> THEN 0 ELSE Max({Len(d[i]) : i \in 1..Len(d)})
    IN  [rows |-> [i \in 1..Len(d) |->
                      [k \in 1..max_cols |-> IF k <= Len(d[i]) THEN d[i][k] ELSE <<>>]],
         count |-> max_cols]

\* f"列 {i + 1}" for i in range(header_count)
default_headers(n) == [i \in 1..n |-> <<"Col", " ">> \o Str(i)]

\* set_data numbering the new rows after the largest identifier in use.
set_data_continuing_ids(st, d, h) ==
    LET n == normalize_data(d)
        base == Max({0} \cup Range(st.row_ids))
    IN  Store(IF h /= <<>> THEN h ELSE default_headers(n.count),
              n.rows,
              [i \in 1..Len(n.rows) |-> base + i])

\* set_data(data, headers); headers = <<>> stands for None and for [].
set_data(st, d, h) ==
    LET n == normalize_data(d)
    IN  Store(IF h /= <<>> THEN h ELSE default_headers(n.count),
              n.rows,
              [i \in 1..Len(n.rows) |-> i])

set_headers(st, h) == [st EXCEPT !.headers = h]

rename_column(st, column, name) ==
    IF 0 <= column /\ column < Len(st.headers)
    THEN [st EXCEPT !.headers = SetAt(st.headers, column, name)]
    ELSE st

\* reorder_columns checking only the length of order and the range of its
\* indices: a repeated index is accepted.
reorder_columns_any_indices(st, order) ==
    IF order = <<>> THEN st
    ELSE IF \/ Len(order) /= Len(st.headers)
            \/ \E k \in 1..Len(order) : order[k] < 0 \/ order[k] >= Len(st.headers)
         THEN st
    ELSE LET okAt == [i \in 1..Len(st.data) |->
                         \A k \in 1..Len(order) : order[k] < Len(st.data[i])]
             f == FirstFail(st.data, okAt)
         IN  Store([k \in 1..Len(order) |-> st.headers[order[k] + 1]],
                   [i \in 1..Len(st.data) |->
                       IF i < f THEN [k \in 1..Len(order) |-> st.data[i][order[k] + 1]]
                       ELSE st.data[i]],
                   st.row_ids)

reorder_columns(st, order) ==
    IF order = <<>> THEN st
    ELSE IF SortAsc(order) /= [i \in 1..Len(st.headers) |-> i - 1] THEN st
    ELSE LET okAt == [i \in 1..Len(st.data) |->
                         \A k \in 1..Len(order) : order[k] < Len(st.data[i])]
             f == FirstFail(st.data, okAt)
         IN  Store([k \in 1..Len(order) |-> st.headers[order[k] + 1]],
                   [i \in 1..Len(st.data) |->
                       IF i < f THEN [k \in 1..Len(order) |-> st.data[i][order[k] + 1]]
                       ELSE st.data[i]],
                   st.row_ids)

\* remove_rows deleting the row and leaving its identifier.
RECURSIVE remove_rows_keeps_ids(_, _)
remove_rows_keeps_ids(st, rows) ==
    IF rows = <<>> THEN st
    ELSE LET row == Head(rows)
             nxt == IF 0 <= row /\ row < Len(st.data)
                    THEN Store(st.headers, DelAt(st.data, row), st.row_ids)
                    ELSE st
         IN  remove_rows_keeps_ids(nxt, Tail(rows))

RECURSIVE remove_rows(_, _)
remove_rows(st, rows) ==
    IF rows = <<>> THEN st
    ELSE LET row == Head(rows)
             nxt == IF 0 <= row /\ row < Len(st.data)
                    THEN Store(st.headers, DelAt(st.data, row), DelAt(st.row_ids, row))
                    ELSE st
         IN  remove_rows(nxt, Tail(rows))

insert_columns(st, index0, hs, columns_data) ==
    IF hs = <<>> THEN st
    ELSE LET index == IF index0 < 0 THEN 0
                      ELSE IF index0 > Len(st.headers) THEN Len(st.headers) ELSE index0
             okAt == [i \in 1..Len(st.data) |->
                         \A c \in 1..Len(hs) :
                             c <= Len(columns_data) /\ i <= Len(columns_data[c])]
             f == FirstFail(st.data, okAt)
             values(i) == [c \in 1..Len(hs) |-> columns_data[c][i]]
         IN  Store(IF f > Len(st.data)
                   THEN Take(st.headers, index) \o hs \o Drop(st.headers, index)
                   ELSE st.headers,
                   [i \in 1..Len(st.data) |->
                       IF i < f
                       THEN Take(st.data[i], index) \o values(i) \o Drop(st.data[i], index)
                       ELSE st.data[i]],
                   st.row_ids)

\* One pass of remove_columns' loop body for one column; raised is set when
\* "del row[column]" fails on a row shorter than the header list.
remove_one_column(st, column) ==
    IF ~(0 <= column /\ column < Len(st.headers)) THEN [st |-> st, raised |-> FALSE]
    ELSE LET okAt == [i \in 1..Len(st.data) |-> column < Len(st.data[i])]
             f == FirstFail(st.data, okAt)
         IN  [st |-> Store(IF f > Len(st.data) THEN DelAt(st.headers, column)
                           ELSE st.headers,
                           [i \in 1..Len(st.data) |->
                               IF i < f THEN DelAt(st.data[i], column) ELSE st.data[i]],
                           st.row_ids),
              raised |-> f <= Len(st.data)]

RECURSIVE remove_columns_loop(_, _)
remove_columns_loop(st, sorted_desc) ==
    IF sorted_desc = <<>> THEN st
    ELSE LET r == remove_one_column(st, Head(sorted_desc))
         IN  IF r.raised THEN r.st ELSE remove_columns_loop(r.st, Tail(sorted_desc))

remove_columns(st, columns) ==
    IF columns = <<>> THEN st ELSE remove_columns_loop(st, SortDesc(columns))

\* f"{self._headers[column]} 部分 {i + 1}" for i in range(max_parts)
part_headers(h, max_parts) ==
    [i \in 1..max_parts |-> h \o <<" ", "Part", " ">> \o Str(i)]

split_column(st, column, delimiter, keep_original) ==
    IF ~(0 <= column /\ column < Len(st.headers)) THEN st
    ELSE IF \E i \in 1..Len(st.data) : column >= Len(st.data[i]) THEN st
    ELSE LET parts_per_row == [i \in 1..Len(st.data) |->
                                  Split(st.data[i][column + 1], delimiter)]
             max_parts == IF st.data = <<>> THEN 0
                          ELSE Max({Len(parts_per_row[i]) : i \in 1..Len(st.data)})
             padded(i) == [k \in 1..max_parts |->
                              IF k <= Len(parts_per_row[i]) THEN parts_per_row[i][k]
                              ELSE <<>>]
             new_headers == part_headers(st.headers[column + 1], max_parts)
             new_columns_data == [k \in 1..max_parts |->
                                     [i \in 1..Len(st.data) |-> padded(i)[k]]]
         IN  IF max_parts <= 1 THEN st
             ELSE IF keep_original
             THEN insert_columns(st, column + 1, new_headers, new_columns_data)
             ELSE Store(Take(st.headers, column) \o new_headers
                            \o Drop(st.headers, column + 1),
                        [i \in 1..Len(st.data) |->
                            Take(st.data[i], column) \o padded(i)
                                \o Drop(st.data[i], column + 1)],
                        st.row_ids)

\* "for col in reversed(columns[1:]): del xs[col]" on one list; ok is FALSE
\* when a del raised, and xs is then what the dels before it left.
RECURSIVE del_each(_, _)
del_each(xs, cols) ==
    IF cols = <<>> THEN [ok |-> TRUE, xs |-> xs]
    ELSE IF Head(cols) >= Len(xs) THEN [ok |-> FALSE, xs |-> xs]
    ELSE del_each(DelAt(xs, Head(cols)), Tail(cols))

merge_header == <<"Merged">>

\* merge_columns without the minimum of two columns: one column is merged
\* with itself.
merge_columns_no_minimum(st, columns0, delimiter, keep_originals) ==
    IF Len(columns0) < 1 THEN st
    ELSE LET columns == SortAsc(columns0)
         IN  IF columns[1] < 0 \/ columns[Len(columns)] >= Len(st.headers) THEN st
             ELSE IF \E i \in 1..Len(st.data) : columns[Len(columns)] >= Len(st.data[i])
             THEN st
             ELSE LET merged_values ==
                          [i \in 1..Len(st.data) |->
                              Join(delimiter,
                                   [k \in 1..Len(columns) |-> st.data[i][columns[k] + 1]])]
                      insert_at == columns[Len(columns)] + 1
                      rest == Reverse(Tail(columns))
                      done(i) == del_each(SetAt(st.data[i], columns[1], merged_values[i]),
                                          rest)
                      okAt == [i \in 1..Len(st.data) |-> done(i).ok]
                      f == FirstFail(st.data, okAt)
                      hs == del_each(SetAt(st.headers, columns[1], merge_header), rest)
                  IN  IF keep_originals
                      THEN insert_columns(st, insert_at, <<merge_header>>, <<merged_values>>)
                      ELSE Store(IF f > Len(st.data) THEN hs.xs ELSE st.headers,
                                 [i \in 1..Len(st.data) |->
                                     IF i <= f THEN done(i).xs ELSE st.data[i]],
                                 st.row_ids)

merge_columns(st, columns0, delimiter, keep_originals) ==
    IF Len(columns0) < 2 THEN st
    ELSE LET columns == SortAsc(columns0)
         IN  IF columns[1] < 0 \/ columns[Len(columns)] >= Len(st.headers) THEN st
             ELSE IF \E i \in 1..Len(st.data) : columns[Len(columns)] >= Len(st.data[i])
             THEN st
             ELSE LET merged_values ==
                          [i \in 1..Len(st.data) |->
                              Join(delimiter,
                                   [k \in 1..Len(columns) |-> st.data[i][columns[k] + 1]])]
                      insert_at == columns[Len(columns)] + 1
                      rest == Reverse(Tail(columns))
                      done(i) == del_each(SetAt(st.data[i], columns[1], merged_values[i]),
                                          rest)
                      okAt == [i \in 1..Len(st.data) |-> done(i).ok]
                      f == FirstFail(st.data, okAt)
                      hs == del_each(SetAt(st.headers, columns[1], merge_header), rest)
                  IN  IF keep_originals
                      THEN insert_columns(st, insert_at, <<merge_header>>, <<merged_values>>)
                      ELSE Store(IF f > Len(st.data) THEN hs.xs ELSE st.headers,
                                 [i \in 1..Len(st.data) |->
                                     IF i <= f THEN done(i).xs ELSE st.data[i]],
                                 st.row_ids)

\* setData(index, value) with role EditRole; column counts the identifier
\* column, as the index's column does.
setData(st, row, column, value) ==
    IF ~(0 <= row /\ row < Len(st.data)) \/ column = 0 THEN st
    ELSE IF ~(0 <= column - 1 /\ column - 1 < Len(st.headers)) THEN st
    ELSE IF column - 1 >= Len(st.data[row + 1]) THEN st
    ELSE [st EXCEPT !.data[row + 1][column] = value]

\* list.sort(key=..., reverse=...) on the zipped (id, row) pairs: a stable
\* sort, also in reverse.  perm is the sorted order as positions of the
\* list before the call.
\* A descending sort that places a row before the rows of equal key already
\* placed, as reversing an ascending sort would.
RECURSIVE stable_sort_reversing_ties(_, _, _)
stable_sort_reversing_ties(keyLess, n, reverse) ==
    IF n = 0 THEN <<>>
    ELSE LET before == stable_sort_reversing_ties(keyLess, n - 1, reverse)
             goes_after(p) == IF reverse THEN keyLess[n][p] ELSE ~keyLess[n][p]
             k == Max({0} \cup {i \in 1..Len(before) :
                                   \A j \in 1..i : goes_after(before[j])})
         IN  Take(before, k) \o <<n>> \o Drop(before, k)

RECURSIVE stable_sort(_, _, _)
stable_sort(keyLess, n, reverse) ==
    \* keyLess[i][j]: the key at position i is less than the key at position j
    IF n = 0 THEN <<>>
    ELSE LET before == stable_sort(keyLess, n - 1, reverse)
             goes_after(p) == IF reverse THEN ~keyLess[p][n] ELSE ~keyLess[n][p]
             \* the new element goes behind the last element it must follow
             k == Max({0} \cup {i \in 1..Len(before) :
                                   \A j \in 1..i : goes_after(before[j])})
         IN  Take(before, k) \o <<n>> \o Drop(before, k)

sort_key(st, i, column) ==
    IF column - 1 < Len(st.data[i]) THEN st.data[i][column] ELSE <<>>

\* sort(column, order) for column >= 0; column 0 is the identifier column.
sort(st, column, reverse) ==
    IF st.data = <<>> THEN st
    ELSE LET n == Len(st.data)
             keyLess == [i \in 1..n |-> [j \in 1..n |->
                            IF column = 0 THEN st.row_ids[i] < st.row_ids[j]
                            ELSE StrLess(sort_key(st, i, column), sort_key(st, j, column))]]
             perm == stable_sort(keyLess, n, reverse)
         IN  Store(st.headers,
                   [i \in 1..n |-> st.data[perm[i]]],
                   [i \in 1..n |-> st.row_ids[perm[i]]])

-----------------------------------------------------------------------------
(* The view: FilterProxyModel over the store.  The proxy's row mapping is  *)
(* recomputed by Qt on every invalidate and on every change of the source  *)
(* (dynamicSortFilter), so the view is a function of the store, the filter *)
(* fields and the sort request.                                            *)

\* FilterRule(column, mode, value); all stands for column = None.
FilterRule(all, column, mode, value) ==
    [all |-> all, column |-> column, mode |-> mode, value |-> value]

\* model.columnCount() - 1
column_count(st) == IF st.headers = <<>> THEN 0 - 1 ELSE Len(st.headers)

\* str(model.data(model.index(source_row, col + 1)) or "") for col in range(column_count)
row_values(st, source_row) ==
    [k \in 1..column_count(st) |->
        IF k <= Len(st.data[source_row + 1]) THEN st.data[source_row + 1][k] ELSE <<>>]

\* re.search(needle, haystack, re.IGNORECASE) for patterns over Chars, whose
\* only metacharacter is "(": a pattern with an unclosed group does not
\* compile (re.error), any other pattern is a literal.
re_search(needle, haystack) ==
    IF "(" \in Range(needle) THEN "error"
    ELSE IF Contains(lower(needle), lower(haystack)) THEN "match" ELSE "none"

\* _match_value without the except clause's False: a pattern that does not
\* compile counts as a match.
match_value_error_accepts(value, rule) ==
    IF rule.mode = "Regex"
    THEN re_search(rule.value, value) /= "none"
    ELSE LET haystack_lower == lower(value)
             needle_lower == lower(rule.value)
         IN  CASE rule.mode = "Contains" -> Contains(needle_lower, haystack_lower)
               [] rule.mode = "Not contains" -> ~Contains(needle_lower, haystack_lower)
               [] rule.mode = "Equals" -> haystack_lower = needle_lower
               [] rule.mode = "Starts with" -> startswith(haystack_lower, needle_lower)
               [] rule.mode = "Ends with" -> endswith(haystack_lower, needle_lower)
               [] OTHER -> FALSE

\* _match_value
match_value(value, rule) ==
    IF rule.mode = "Regex"
    THEN LET found == re_search(rule.value, value)
         IN  IF found = "error" THEN FALSE ELSE found = "match"
    ELSE LET haystack_lower == lower(value)
             needle_lower == lower(rule.value)
         IN  CASE rule.mode = "Contains" -> Contains(needle_lower, haystack_lower)
               [] rule.mode = "Not contains" -> ~Contains(needle_lower, haystack_lower)
               [] rule.mode = "Equals" -> haystack_lower = needle_lower
               [] rule.mode = "Starts with" -> startswith(haystack_lower, needle_lower)
               [] rule.mode = "Ends with" -> endswith(haystack_lower, needle_lower)
               [] OTHER -> FALSE

\* _apply_rule_all_columns without the "Not contains" case: any column
\* that does not contain the value is enough.
apply_rule_all_columns_any(rule, values) ==
    \E k \in 1..Len(values) : match_value(values[k], rule)

\* _apply_rule_all_columns
apply_rule_all_columns(rule, values) ==
    IF rule.mode = "Not contains"
    THEN \A k \in 1..Len(values) : ~Contains(lower(rule.value), lower(values[k]))
    ELSE \E k \in 1..Len(values) : match_value(values[k], rule)

apply_rule(rule, values) ==
    IF rule.all THEN apply_rule_all_columns(rule, values)
    ELSE IF rule.column < 0 \/ rule.column >= Len(values) THEN FALSE
    ELSE match_value(values[rule.column + 1], rule)

\* "for rule in self._rules: if not self._apply_rule(...): return False"
RECURSIVE rules_accept(_, _)
rules_accept(rs, values) ==
    IF rs = <<>> THEN TRUE
    ELSE IF ~apply_rule(Head(rs), values) THEN FALSE
    ELSE rules_accept(Tail(rs), values)

filterAcceptsRow(st, gf, rs, source_row) ==
    IF column_count(st) <= 0 THEN FALSE
    ELSE LET values == row_values(st, source_row)
         IN  IF gf /= <<>>
                /\ ~\E k \in 1..Len(values) : Contains(lower(gf), lower(values[k]))
             THEN FALSE
             ELSE rules_accept(rs, values)

\* set_global_filter stores text.strip()
stored_global_filter(text) == strip(text)

whole_row_key == <<"-", "-", "-", "-">>

\* lessThan(left, right) for two indexes of proxy column `column` on source
\* rows l and r (0-based).  Without a whole-row sort a data column falls to
\* QSortFilterProxyModel.lessThan, which compares the two display strings
\* with QString::compare (case sensitive, not locale aware, by default).
lessThan(st, wrs, column, l, r) ==
    IF column = 0 THEN st.row_ids[l + 1] < st.row_ids[r + 1]
    ELSE IF wrs /= "none"
    THEN IF column_count(st) <= 0 THEN FALSE
         ELSE StrLess(Join(whole_row_key, row_values(st, l)),
                      Join(whole_row_key, row_values(st, r)))
    ELSE StrLess(row_values(st, l)[column], row_values(st, r)[column])

\* The source rows (0-based) the view shows, in view order: the accepted
\* rows, stably sorted with lessThan (ascending) or its converse
\* (descending) when a sort column is set.
view_rows(st, gf, rs, wrs, sort_column, descending) ==
    LET accepted == {r \in 0..(Len(st.data) - 1) : filterAcceptsRow(st, gf, rs, r)}
        n == Cardinality(accepted)
        \* the accepted rows in source order
        src == [i \in 1..n |->
                   CHOOSE r \in accepted : Cardinality({q \in accepted : q < r}) = i - 1]
    IN  IF sort_column < 0 \/ sort_column > Len(st.headers) THEN src
        ELSE LET keyLess == [i \in 1..n |-> [j \in 1..n |->
                                lessThan(st, wrs, sort_column, src[i], src[j])]]
                 perm == stable_sort(keyLess, n, descending)
             IN  [i \in 1..n |-> src[perm[i]]]

-----------------------------------------------------------------------------
(* The window: MainWindow's undo engine and command handlers.  A window    *)
(* value w is the record of the store and the two stacks.                  *)

max_undo == 30

Window(st, undo, redo) == [st |-> st, undo |-> undo, redo |-> redo]

rowCount(st) == Len(st.data)

\* _capture_snapshot: (data, headers)
capture_snapshot(st) == <<st.data, st.headers>>

\* _push_undo with the newest snapshot dropped at the cap (pop() for pop(0)).
push_undo_drops_newest(w) ==
    IF rowCount(w.st) = 0 /\ w.st.headers = <<>> THEN w
    ELSE LET appended == Append(w.undo, capture_snapshot(w.st))
         IN  Window(w.st,
                    IF Len(appended) > max_undo
                    THEN SubSeq(appended, 1, Len(appended) - 1) ELSE appended,
                    <<>>)

\* _push_undo without self._redo_stack.clear().
push_undo_keeps_redo(w) ==
    IF rowCount(w.st) = 0 /\ w.st.headers = <<>> THEN w
    ELSE LET appended == Append(w.undo, capture_snapshot(w.st))
         IN  Window(w.st,
                    IF Len(appended) > max_undo THEN Tail(appended) ELSE appended,
                    w.redo)

\* _push_undo
push_undo(w) ==
    IF rowCount(w.st) = 0 /\ w.st.headers = <<>> THEN w
    ELSE LET appended == Append(w.undo, capture_snapshot(w.st))
         IN  Window(w.st,
                    IF Len(appended) > max_undo THEN Tail(appended) ELSE appended,
                    <<>>)

restore_snapshot(st, snapshot) == set_data(st, snapshot[1], snapshot[2])

undo(w) ==
    IF w.undo = <<>> THEN w
    ELSE Window(restore_snapshot(w.st, w.undo[Len(w.undo)]),
                SubSeq(w.undo, 1, Len(w.undo) - 1),
                Append(w.redo, capture_snapshot(w.st)))

\* _redo without the snapshot of the table it replaces.
redo_without_snapshot(w) ==
    IF w.redo = <<>> THEN w
    ELSE Window(restore_snapshot(w.st, w.redo[Len(w.redo)]),
                w.undo,
                SubSeq(w.redo, 1, Len(w.redo) - 1))

redo(w) ==
    IF w.redo = <<>> THEN w
    ELSE Window(restore_snapshot(w.st, w.redo[Len(w.redo)]),
                Append(w.undo, capture_snapshot(w.st)),
                SubSeq(w.redo, 1, Len(w.redo) - 1))

\* _on_parse_finished(data, text), as far as the store and the stacks go.
on_parse_finished(w, d) ==
    LET w1 == IF rowCount(w.st) > 0 THEN push_undo(w) ELSE w
    IN  [w1 EXCEPT !.st = set_data(w1.st, d, <<>>)]

\* A set of integers as the list sorted(S) / sorted(S, reverse=True).
RECURSIVE SetDesc(_)
SetDesc(S) == IF S = {} THEN <<>> ELSE <<Max(S)>> \o SetDesc(S \ {Max(S)})
SetAsc(S) == Reverse(SetDesc(S))

\* _delete_selected with the source rows of the selection.
delete_selected(w, selected) ==
    IF selected = {} THEN w
    ELSE LET w1 == push_undo(w)
         IN  [w1 EXCEPT !.st = remove_rows(w1.st, SetDesc(selected))]

\* _open_column_manager with the dialog accepted; (order, names) is the
\* dialog's get_state(): the original indices of the items left, in list
\* order, and their texts.
column_manager(w, order, names) ==
    LET w1 == push_undo(w)
        n == Len(w1.st.headers)
        remaining == Range(order)
        deleted == {idx \in 0..(n - 1) : idx \notin remaining}
        st1 == IF deleted /= {} THEN remove_columns(w1.st, SetDesc(deleted)) ELSE w1.st
        index_map(orig) == Cardinality({x \in remaining : x < orig})
        new_order == IF deleted /= {} THEN [k \in 1..Len(order) |-> index_map(order[k])]
                     ELSE order
    IN  [w1 EXCEPT !.st = set_headers(reorder_columns(st1, new_order), names)]

\* _get_scope_rows: the rows an operation applies to.
scope_rows(st, scope, selected) ==
    IF scope = "Selected Cells" \/ scope = "Selected Rows" THEN selected
    ELSE 0..(rowCount(st) - 1)

\* The new text of one cell under a batch text or clean operation.
text_value(op, params, value) ==
    CASE op = "replace" -> Join(params.replace, Split(value, params.find))
      [] op = "prefix_suffix" -> params.prefix \o value \o params.suffix
      [] op = "strip" -> strip(value)
      [] op = "lower" -> lower(value)
      [] OTHER -> value

\* "for row, col in targets: ... self._model.setData(index, value)"
RECURSIVE set_targets(_, _, _, _)
set_targets(st, targets, op, params) ==
    IF targets = <<>> THEN st
    ELSE LET row == Head(targets)[1]
             col == Head(targets)[2]
             value == st.data[row + 1][col + 1]
         IN  set_targets(setData(st, row, col + 1, text_value(op, params, value)),
                         Tail(targets), op, params)

\* targets = [(row, col) for row in rows for col in columns]
RECURSIVE cross_targets(_, _)
cross_targets(rows, columns) ==
    IF rows = <<>> THEN <<>>
    ELSE [k \in 1..Len(columns) |-> <<Head(rows), columns[k]>>]
             \o cross_targets(Tail(rows), columns)

\* _apply_text_operation (plain find/replace, prefix/suffix); columns is the
\* ascending list of checked columns and is not empty.
apply_text_operation(w, op, params, scope, selected, columns) ==
    LET w1 == push_undo(w)
        targets == cross_targets(SetAsc(scope_rows(w1.st, scope, selected)), columns)
    IN  [w1 EXCEPT !.st = set_targets(w1.st, targets, op, params)]

\* One round of _apply_split_operation's loop over sorted(columns); t is the
\* record of the locals data, headers and offset.
split_one(t, col, delimiter, keep_original, rows_in_scope) ==
    LET adjusted_col == col + t.offset
        n == Len(t.data)
        per_row_parts == [i \in 1..n |->
                             IF (i - 1) \in rows_in_scope
                             THEN Split(t.data[i][adjusted_col + 1], delimiter)
                             ELSE <<>>]
        max_parts == IF n = 0 THEN 0 ELSE Max({Len(per_row_parts[i]) : i \in 1..n})
        padded(i) == [k \in 1..max_parts |->
                         IF k <= Len(per_row_parts[i]) THEN per_row_parts[i][k] ELSE <<>>]
        new_headers == part_headers(t.headers[adjusted_col + 1], max_parts)
    IN  IF max_parts <= 1 THEN t
        ELSE IF keep_original
        THEN [data |-> [i \in 1..n |->
                           Take(t.data[i], adjusted_col + 1) \o padded(i)
                               \o Drop(t.data[i], adjusted_col + 1)],
              headers |-> Take(t.headers, adjusted_col + 1) \o new_headers
                              \o Drop(t.headers, adjusted_col + 1),
              offset |-> t.offset + max_parts]
        ELSE [data |-> [i \in 1..n |->
                           Take(t.data[i], adjusted_col)
                               \o <<IF (i - 1) \in rows_in_scope THEN padded(i)[1]
                                    ELSE t.data[i][adjusted_col + 1]>>
                               \o Tail(padded(i))
                               \o Drop(t.data[i], adjusted_col + 1)],
              headers |-> Take(t.headers, adjusted_col) \o new_headers
                              \o Drop(t.headers, adjusted_col + 1),
              offset |-> t.offset + max_parts - 1]

RECURSIVE split_loop(_, _, _, _, _)
split_loop(t, columns, delimiter, keep_original, rows_in_scope) ==
    IF columns = <<>> THEN t
    ELSE split_loop(split_one(t, Head(columns), delimiter, keep_original, rows_in_scope),
                    Tail(columns), delimiter, keep_original, rows_in_scope)

apply_split_operation(w, delimiter, keep_original, scope, selected, columns) ==
    LET w1 == push_undo(w)
        rows_in_scope == scope_rows(w1.st, scope, selected)
        t == split_loop([data |-> w1.st.data, headers |-> w1.st.headers, offset |-> 0],
                        SortAsc(columns), delimiter, keep_original, rows_in_scope)
    IN  [w1 EXCEPT !.st = set_data(w1.st, t.data, t.headers)]

apply_merge_operation(w, delimiter, keep_originals, scope, selected, columns0) ==
    LET w1 == push_undo(w)
        columns == SortAsc(columns0)
    IN  IF Len(columns) < 2 THEN w1
        ELSE LET rows_in_scope == scope_rows(w1.st, scope, selected)
                 d == w1.st.data
                 joined(i) == Join(delimiter, [k \in 1..Len(columns) |-> d[i][columns[k] + 1]])
                 merged_values == [i \in 1..Len(d) |->
                                      IF (i - 1) \in rows_in_scope THEN joined(i)
                                      ELSE IF keep_originals THEN <<>> ELSE joined(i)]
                 insert_at == columns[Len(columns)] + 1
                 rest == Reverse(Tail(columns))
                 new_data ==
                     IF keep_originals
                     THEN [i \in 1..Len(d) |->
                              Take(d[i], insert_at) \o <<merged_values[i]>>
                                  \o Drop(d[i], insert_at)]
                     ELSE [i \in 1..Len(d) |->
                              del_each(SetAt(d[i], columns[1], merged_values[i]), rest).xs]
                 new_headers ==
                     IF keep_originals
                     THEN Take(w1.st.headers, insert_at) \o <<merge_header>>
                              \o Drop(w1.st.headers, insert_at)
                     ELSE del_each(SetAt(w1.st.headers, columns[1], merge_header), rest).xs
             IN  [w1 EXCEPT !.st = set_data(w1.st, new_data, new_headers)]

\* not data[row][col].strip() for every col in columns
blank_in(row, columns) == \A k \in 1..Len(columns) : strip(row[columns[k] + 1]) = <<>>

apply_clean_operation(w, action, scope, selected, columns) ==
    LET w1 == push_undo(w)
        st == w1.st
        rows_in_scope == scope_rows(st, scope, selected)
    IN  IF action = "remove_empty_rows"
        THEN LET rows_to_remove == {r \in rows_in_scope : blank_in(st.data[r + 1], columns)}
             IN  [w1 EXCEPT !.st = remove_rows(st, SetDesc(rows_to_remove))]
        ELSE IF action = "remove_empty_cols"
        THEN LET empty_cols == {c \in Range(columns) :
                                   \A i \in 1..Len(st.data) : strip(st.data[i][c + 1]) = <<>>}
             IN  IF empty_cols /= {}
                 THEN [w1 EXCEPT !.st = remove_columns(st, SetDesc(empty_cols))]
                 ELSE w1
        ELSE [w1 EXCEPT !.st =
                 set_targets(st, cross_targets(SetAsc(rows_in_scope), columns), action,
                             [find |-> <<>>, replace |-> <<>>, prefix |-> <<>>, suffix |-> <<>>])]

\* tuple(row[i] for i in columns)
key_of(row, columns) == [k \in 1..Len(columns) |-> row[columns[k] + 1]]

\* The seen-set pass of _open_dedup.preview over a list of keys.
RECURSIVE count_seen(_, _, _)
count_seen(keys, seen, removed) ==
    IF keys = <<>> THEN removed
    ELSE IF Head(keys) \in seen THEN count_seen(Tail(keys), seen, removed + 1)
    ELSE count_seen(Tail(keys), seen \cup {Head(keys)}, removed)

\* _open_dedup.preview(columns, keep_last) on the rows read when the dialog opened.
preview(d, columns, keep_last) ==
    LET keys == [i \in 1..Len(d) |-> key_of(d[i], columns)]
    IN  count_seen(IF keep_last THEN Reverse(keys) ELSE keys, {}, 0)

\* The rows _open_dedup keeps: result_rows.
RECURSIVE dedup_pass(_, _, _)
dedup_pass(rows, columns, keys) ==
    IF rows = <<>> THEN <<>>
    ELSE LET key == key_of(Head(rows), columns)
         IN  IF key \in keys THEN dedup_pass(Tail(rows), columns, keys)
             ELSE <<Head(rows)>> \o dedup_pass(Tail(rows), columns, keys \cup {key})

\* _open_dedup with the dialog accepted on (columns, keep_last).
open_dedup(w, columns, keep_last) ==
    IF columns = <<>> THEN w
    ELSE LET d == w.st.data
             result_rows == IF keep_last
                            THEN Reverse(dedup_pass(Reverse(d), columns, {}))
                            ELSE dedup_pass(d, columns, {})
             w1 == push_undo(w)
         IN  [w1 EXCEPT !.st = set_data(w1.st, result_rows, w.st.headers)]

-----------------------------------------------------------------------------
(* Bounds and argument domains *)

MaxRows == 3
MaxSteps == 4
MaxCols == 2
MaxCellLen == 3

ta == <<"a">>
tb == <<"b">>
tab == <<"a", "-", "b">>
dash == <<"-">>
hx == <<"x">>
hy == <<"y">>

\* Sequences over S of length at most n.
RECURSIVE SeqsUpTo(_, _)
SeqsUpTo(S, n) ==
    IF n = 0 THEN {<<>>}
    ELSE LET shorter == SeqsUpTo(S, n - 1)
         IN  shorter \cup {Append(q, x) : q \in shorter, x \in S}

NoDup(q) == \A i, j \in 1..Len(q) : i /= j => q[i] /= q[j]

\* Row grids handed to set_data: empty, one column with a repeated value,
\* and a jagged one.
Grids ==
    { <<>>,
      << <<tb>>, <<ta>>, <<tb>> >>,
      << <<tb, tab>>, <<ta>> >> }

HeaderLists == { <<>>, <<hx>>, <<hx, hy>> }
HeaderNames == { hy }
EditValues == { tb }
Delimiters == { dash }
ColumnArgs == (0 - 1)..MaxCols
RowArgs == 0..MaxRows
ColumnLists == {q \in SeqsUpTo(0..MaxCols, 2) : NoDup(q)}
RowLists == SeqsUpTo(RowArgs, 2)

\* Values handed to insert_columns as one new column: full, and one entry short.
InsertedColumns(n) == { [i \in 1..n |-> tb], [i \in 1..(n - 1) |-> tb] } \ { <<>> }

Width(d) == IF d = <<>> THEN 0 ELSE Max({Len(d[i]) : i \in 1..Len(d)})
Within(st, cols, cell_len) ==
    /\ Len(st.headers) <= cols
    /\ Width(st.data) <= cols
    /\ \A i \in 1..Len(st.data) : \A k \in 1..Len(st.data[i]) :
           Len(st.data[i][k]) <= cell_len
WithinBounds(st) == Within(st, MaxCols, MaxCellLen)

-----------------------------------------------------------------------------
(* The store on its own: every public mutator of TextTableModel, called    *)
(* with arguments inside and outside the current rows and columns.         *)

StoreNow == Store(headers, data, row_ids)

\* The rows' provenance moves as the identifiers do inside the store.
Traced == Store(headers, data, origin)

Put(st) ==
    /\ headers' = st.headers
    /\ data' = st.data
    /\ row_ids' = st.row_ids

\* Every call uses up one of the calls the behaviour started with.
Tick == steps > 0 /\ steps' = steps - 1

winvars == <<undo_stack, redo_stack, last, pushed, first>>
viewvars == <<global_filter, rules, sort_spec, whole_row_sort>>

SetData ==
    \E d \in Grids, h \in HeaderLists :
        /\ Tick
        /\ UNCHANGED bgvars
        /\ Put(set_data(StoreNow, d, h))
        /\ origin' = row_ids'
        /\ UNCHANGED <<winvars, viewvars>>

SetHeaders ==
    \E h \in HeaderLists :
        /\ Tick
        /\ UNCHANGED bgvars
        /\ Put(set_headers(StoreNow, h))
        /\ UNCHANGED <<origin, winvars, viewvars>>

RenameColumn ==
    \E column \in ColumnArgs, name \in HeaderNames :
        /\ Tick
        /\ UNCHANGED bgvars
        /\ Put(rename_column(StoreNow, column, name))
        /\ UNCHANGED <<origin, winvars, viewvars>>

ReorderColumns ==
    \E order \in ColumnLists \cup {<<0, 0>>} :
        /\ Tick
        /\ UNCHANGED bgvars
        /\ Put(reorder_columns(StoreNow, order))
        /\ UNCHANGED <<origin, winvars, viewvars>>

RemoveRows ==
    \E rows \in RowLists :
        /\ Tick
        /\ UNCHANGED bgvars
        /\ Put(remove_rows(StoreNow, rows))
        /\ origin' = remove_rows(Traced, rows).row_ids
        /\ UNCHANGED <<winvars, viewvars>>

InsertColumns ==
    \E index \in ColumnArgs, values \in InsertedColumns(Len(data)) :
        LET st == insert_columns(StoreNow, index, <<hy>>, <<values>>)
        IN  /\ WithinBounds(st)
            /\ Tick
            /\ UNCHANGED bgvars
            /\ Put(st)
            /\ UNCHANGED <<origin, winvars, viewvars>>

RemoveColumns ==
    \E columns \in ColumnLists :
        /\ Tick
        /\ UNCHANGED bgvars
        /\ Put(remove_columns(StoreNow, columns))
        /\ UNCHANGED <<origin, winvars, viewvars>>

SplitColumn ==
    \E column \in ColumnArgs, delimiter \in Delimiters, keep_original \in BOOLEAN :
        LET st == split_column(StoreNow, column, delimiter, keep_original)
        IN  /\ WithinBounds(st)
            /\ Tick
            /\ UNCHANGED bgvars
            /\ Put(st)
            /\ UNCHANGED <<origin, winvars, viewvars>>

MergeColumns ==
    \E columns \in ColumnLists, delimiter \in Delimiters, keep_originals \in BOOLEAN :
        LET st == merge_columns(StoreNow, columns, delimiter, keep_originals)
        IN  /\ WithinBounds(st)
            /\ Tick
            /\ UNCHANGED bgvars
            /\ Put(st)
            /\ UNCHANGED <<origin, winvars, viewvars>>

SetCell ==
    \E row \in RowArgs, column \in 0..(MaxCols + 1), value \in EditValues :
        /\ Tick
        /\ UNCHANGED bgvars
        /\ Put(setData(StoreNow, row, column, value))
        /\ UNCHANGED <<origin, winvars, viewvars>>

Sort ==
    \E column \in 0..(MaxCols + 1), reverse \in BOOLEAN :
        /\ Tick
        /\ UNCHANGED bgvars
        /\ Put(sort(StoreNow, column, reverse))
        /\ origin' = sort(Traced, column, reverse).row_ids
        /\ UNCHANGED <<winvars, viewvars>>

\* TextTableModel(): no data, no headers; MainWindow(): both stacks empty,
\* no filter, no sort.
Fresh ==
    /\ headers = <<>>
    /\ data = <<>>
    /\ row_ids = <<>>
    /\ undo_stack = <<>>
    /\ redo_stack = <<>>
    /\ global_filter = <<>>
    /\ rules = <<>>
    /\ sort_spec = <<0 - 1, FALSE>>
    /\ whole_row_sort = "none"
    /\ origin = <<>>
    /\ last = <<"init", 0, 0>>
    /\ pushed = <<>>
    /\ first = <<0, 0, "commands">>
    /\ group_dialog = [headers |-> <<>>, data |-> <<>>, checked |-> <<>>,
                       result_model |-> Store(<<>>, <<>>, <<>>)]
    /\ parse_thread = <<>>
    /\ threads = <<>>
    /\ events = <<>>
    /\ qsettings = [key \in SettingsKeys |-> absent]

Init == Fresh /\ steps = MaxSteps

Next ==
    \/ SetData
    \/ SetHeaders
    \/ RenameColumn
    \/ ReorderColumns
    \/ RemoveRows
    \/ InsertColumns
    \/ RemoveColumns
    \/ SplitColumn
    \/ MergeColumns
    \/ SetCell
    \/ Sort

Spec == Init /\ [][Next]_vars

\* The entries of xs whose 0-based positions are not in gone, in their order.
Without(xs, gone) ==
    LET kept == {i \in 1..Len(xs) : (i - 1) \notin gone}
    IN  [k \in 1..Cardinality(kept) |->
            xs[CHOOSE i \in kept : Cardinality({j \in kept : j < i}) = k - 1]]

\* C1: after any sequence of store operations with arbitrary arguments
\* every stored row has the same length, and that length is the number of
\* headers.
Rectangular == \A i \in 1..Len(data) : Len(data[i]) = Len(headers)

\* C6: for every list of distinct in-range row positions, in any order,
\* remove_rows removes exactly the rows at those positions together with
\* their identifiers, and the remaining rows keep their relative order.
RemovesExactlyListed ==
    \A rows \in RowLists :
        (NoDup(rows) /\ \A k \in 1..Len(rows) : rows[k] < Len(data))
            => LET after == remove_rows(StoreNow, rows)
               IN  /\ after.data = Without(data, Range(rows))
                   /\ after.row_ids = Without(row_ids, Range(rows))

-----------------------------------------------------------------------------
(* The window's commands: load, delete, column manager, the batch tools,   *)
(* dedup, undo, redo, cell edit, and the view's sort and global filter     *)
(* (which decide what can be selected).                                    *)

WinNow == Window(StoreNow, undo_stack, redo_stack)

PutWindow(w) ==
    /\ Put(w.st)
    /\ undo_stack' = w.undo
    /\ redo_stack' = w.redo

\* Grids a finished parse hands over: none (blank text), one column with a
\* repeated splittable value, two columns with a blank first cell.
WinGrids ==
    { <<>>,
      << <<tab>>, <<tab>> >>,
      << <<tb, ta>>, << <<>>, ta>> >> }

Scopes == {"Entire Table", "Selected Rows", "Selected Cells"}

\* What the view shows now, as a set of source rows: the rows a selection
\* is made of.
VisibleRows ==
    Range(view_rows(StoreNow, global_filter, rules, whole_row_sort,
                    sort_spec[1], sort_spec[2]))

\* The checked columns of a dialog, ascending; at least one.
CheckedColumns == {SetAsc(C) : C \in (SUBSET (0..(Len(headers) - 1))) \ {{}}}

\* The row identifiers are renumbered, or the rows replaced: provenance
\* restarts.
Reentered == origin' = row_ids'

\* _push_undo keeps a snapshot unless the table has neither rows nor headers.
Snapshots == Len(data) > 0 \/ headers /= <<>>

\* first = <<commands, undos, phase>>: the undo-wrapped commands made since
\* the window opened, then the undos made after them, while nothing else
\* touched the table (phase "commands", then "undos"; "mixed" afterwards).
\* pushed: the snapshots those commands took, in order.
Command(taken) ==
    /\ first' = IF first[3] = "commands" THEN <<first[1] + 1, 0, "commands">>
                ELSE <<0, 0, "mixed">>
    /\ pushed' = IF first[3] /= "commands" THEN <<>>
                 ELSE IF taken THEN Append(pushed, capture_snapshot(StoreNow))
                 ELSE pushed
Undone ==
    /\ first' = IF first[3] \in {"commands", "undos"}
                THEN <<first[1], first[2] + 1, "undos">>
                ELSE first
    /\ UNCHANGED pushed
Other ==
    /\ first' = <<0, 0, "mixed">>
    /\ pushed' = <<>>

OnParseFinished(grids) ==
    \E d \in grids :
        /\ Tick
        /\ parse_thread' = <<>>
        /\ UNCHANGED <<group_dialog, threads, events, qsettings>>
        /\ PutWindow(on_parse_finished(WinNow, d))
        /\ Reentered
        /\ Command(Len(data) > 0)
        /\ last' = <<"load", 0, 0>>
        /\ UNCHANGED viewvars

DeleteSelected ==
    \E selected \in (SUBSET VisibleRows) \ {{}} :
        /\ Tick
        /\ UNCHANGED bgvars
        /\ PutWindow(delete_selected(WinNow, selected))
        /\ origin' = remove_rows(Traced, SetDesc(selected)).row_ids
        /\ Command(Snapshots)
        /\ last' = <<"delete", 0, 0>>
        /\ UNCHANGED viewvars

\* The dialog's items: any arrangement of any of the columns, the first
\* item renamed or not.
OpenColumnManager ==
    \E order \in {q \in SeqsUpTo(0..(Len(headers) - 1), Len(headers)) : NoDup(q)},
       rename \in BOOLEAN :
        LET names == [k \in 1..Len(order) |->
                         IF rename /\ k = 1 THEN hy ELSE headers[order[k] + 1]]
        IN  /\ Tick
            /\ UNCHANGED bgvars
            /\ PutWindow(column_manager(WinNow, order, names))
            /\ Command(Snapshots)
            /\ last' = <<"columns", 0, 0>>
            /\ UNCHANGED <<viewvars, origin>>

Prefixing ==
    [op |-> "prefix_suffix", find |-> <<>>, replace |-> <<>>, prefix |-> tb, suffix |-> <<>>]
Replacing ==
    [op |-> "replace", find |-> ta, replace |-> tb, prefix |-> <<>>, suffix |-> <<>>]
TextParams == {Replacing, Prefixing}

BatchText(paramset, scopes, cell_len) ==
    \E params \in paramset, scope \in scopes, selected \in SUBSET VisibleRows,
       columns \in CheckedColumns :
        LET w == apply_text_operation(WinNow, params.op, params, scope, selected, columns)
        IN  /\ Tick
            /\ UNCHANGED bgvars
            /\ Within(w.st, MaxCols, cell_len)
            /\ PutWindow(w)
            /\ Command(Snapshots)
            /\ last' = <<"text", 0, 0>>
            /\ UNCHANGED <<viewvars, origin>>

\* The rows stay where they are: set_data renumbers them, provenance stays.
BatchSplit ==
    \E keep_original \in BOOLEAN, scope \in Scopes, selected \in SUBSET VisibleRows,
       columns \in CheckedColumns :
        LET w == apply_split_operation(WinNow, dash, keep_original, scope, selected, columns)
        IN  /\ Tick
            /\ UNCHANGED bgvars
            /\ WithinBounds(w.st)
            /\ PutWindow(w)
            /\ Command(Snapshots)
            /\ last' = <<"split", 0, 0>>
            /\ UNCHANGED <<viewvars, origin>>

BatchMerge ==
    \E keep_originals \in BOOLEAN, scope \in Scopes, selected \in SUBSET VisibleRows,
       columns \in CheckedColumns :
        LET w == apply_merge_operation(WinNow, dash, keep_originals, scope, selected, columns)
        IN  /\ Tick
            /\ UNCHANGED bgvars
            /\ WithinBounds(w.st)
            /\ PutWindow(w)
            /\ Command(Snapshots)
            /\ last' = <<IF Len(columns) < 2 THEN "merge_rejected" ELSE "merge", 0, 0>>
            /\ UNCHANGED <<viewvars, origin>>

CleanActions == {"strip", "lower", "remove_empty_rows", "remove_empty_cols"}

BatchClean ==
    \E action \in CleanActions, scope \in Scopes, selected \in SUBSET VisibleRows,
       columns \in CheckedColumns :
        LET w == apply_clean_operation(WinNow, action, scope, selected, columns)
            gone == IF action = "remove_empty_rows"
                    THEN {r \in scope_rows(StoreNow, scope, selected) :
                             blank_in(data[r + 1], columns)}
                    ELSE {}
        IN  /\ Tick
            /\ UNCHANGED bgvars
            /\ PutWindow(w)
            /\ origin' = remove_rows(Traced, SetDesc(gone)).row_ids
            /\ Command(Snapshots)
            /\ last' = <<"clean", 0, 0>>
            /\ UNCHANGED viewvars

\* The dialog shows preview(columns, keep_last) for the choice it is
\* accepted with; last keeps that count and the number of rows gone.
OpenDedup ==
    \E C \in SUBSET (0..(Len(headers) - 1)), keep_last \in BOOLEAN :
        LET columns == SetAsc(C)
            w == open_dedup(WinNow, columns, keep_last)
        IN  /\ Tick
            /\ UNCHANGED bgvars
            /\ PutWindow(w)
            /\ Reentered
            /\ IF columns = <<>> THEN UNCHANGED <<first, pushed>> ELSE Command(Snapshots)
            /\ last' = <<IF columns = <<>> THEN "dedup_none" ELSE "dedup",
                         preview(data, columns, keep_last),
                         Len(data) - Len(w.st.data)>>
            /\ UNCHANGED viewvars

Undo ==
    /\ Tick
    /\ UNCHANGED bgvars
    /\ PutWindow(undo(WinNow))
    /\ Reentered
    /\ Undone
    /\ last' = <<"undo", 0, 0>>
    /\ UNCHANGED viewvars

Redo ==
    /\ Tick
    /\ UNCHANGED bgvars
    /\ PutWindow(redo(WinNow))
    /\ Reentered
    /\ Other
    /\ last' = <<"redo", 0, 0>>
    /\ UNCHANGED viewvars

\* A cell edited in the view: the delegate calls setData on the source
\* index; no snapshot is taken.
EditCell ==
    \E row \in VisibleRows, column \in 1..Len(headers), value \in EditValues :
        /\ Tick
        /\ UNCHANGED bgvars
        /\ Put(setData(StoreNow, row, column, value))
        /\ Other
        /\ last' = <<"edit", 0, 0>>
        /\ UNCHANGED <<undo_stack, redo_stack, viewvars, origin>>

\* A click on a header section: the proxy sorts its rows, the store is not
\* asked to.
SortView ==
    \E column \in 0..Len(headers), descending \in BOOLEAN :
        /\ Tick
        /\ UNCHANGED bgvars
        /\ headers /= <<>>
        /\ sort_spec' = <<column, descending>>
        /\ last' = <<"sort_view", 0, 0>>
        /\ UNCHANGED <<headers, data, row_ids, undo_stack, redo_stack, global_filter, rules,
                       whole_row_sort, origin, pushed, first>>

\* _apply_global_filter(text)
ApplyGlobalFilter(texts) ==
    \E text \in texts :
        /\ Tick
        /\ UNCHANGED bgvars
        /\ global_filter' = stored_global_filter(text)
        /\ last' = <<"filter", 0, 0>>
        /\ UNCHANGED <<headers, data, row_ids, undo_stack, redo_stack, rules, sort_spec,
                       whole_row_sort, origin, pushed, first>>

MaxWinSteps == 3
InitWin == Fresh /\ steps = MaxWinSteps

NextWin ==
    \/ OnParseFinished(WinGrids)
    \/ DeleteSelected
    \/ OpenColumnManager
    \/ BatchText(TextParams, Scopes, MaxCellLen)
    \/ BatchSplit
    \/ BatchMerge
    \/ BatchClean
    \/ OpenDedup
    \/ Undo
    \/ Redo
    \/ EditCell
    \/ SortView
    \/ ApplyGlobalFilter({<<>>, <<" ", "b">>})

SpecWin == InitWin /\ [][NextWin]_vars

\* C2: between two full data replacements every row keeps the identifier
\* it received when it entered the store, whatever sorts, filter changes,
\* cell edits and column operations (column manager, batch split, merge,
\* text, clean) were made since.
IdentifiersKept == row_ids = origin

\* C3: N <= 30 undo-wrapped commands made on the table the window opened
\* with (the empty table), then N undos, give that table back.
UndosRestoreFirstTable ==
    (first[3] = "undos" /\ first[1] <= max_undo /\ first[2] = first[1])
        => (data = <<>> /\ headers = <<>>)

\* C7: the count the dedup preview shows for the accepted choice of key
\* columns and keep policy is the number of rows the commit removes.
PreviewCountsRemoved ==
    last[1] \in {"dedup", "dedup_none"} => last[2] = last[3]

-----------------------------------------------------------------------------
(* Undo and redo around the commands, on a one-cell table, far enough for  *)
(* a load to follow an undo.                                               *)

RedoGrids == { <<>>, << <<tb>> >> }
MaxRedoSteps == 5
InitRedo == Fresh /\ steps = MaxRedoSteps

NextRedo ==
    \/ OnParseFinished(RedoGrids)
    \/ DeleteSelected
    \/ OpenColumnManager
    \/ BatchText({Prefixing}, {"Entire Table"}, MaxCellLen)
    \/ OpenDedup
    \/ Undo
    \/ Redo

SpecRedo == InitRedo /\ [][NextRedo]_vars

Mutations == {"load", "delete", "columns", "text", "split", "merge", "clean", "dedup"}

\* C5: right after any new mutating operation (load, delete, column
\* manager, batch operation, dedup) the redo stack is empty.
RedoEmptyAfterMutation == last[1] \in Mutations => redo_stack = <<>>

-----------------------------------------------------------------------------
(* A long run of commands on one cell, each taking a snapshot of a table   *)
(* different from every earlier one, then undos: the history's cap.        *)

CapGrids == { << <<ta>> >> }
MaxCapOps == 35
MaxCapSteps == 67
InitCap == Fresh /\ steps = MaxCapSteps

\* The file is opened on the empty window.
OpenFile == Len(data) = 0 /\ headers = <<>> /\ OnParseFinished(CapGrids)

NextCap ==
    \/ OpenFile
    \/ BatchText({Prefixing}, {"Entire Table"}, MaxCapOps + 1)
    \/ Undo

SpecCap == InitCap /\ [][NextCap]_vars

\* The last n entries of xs (all of them when there are fewer).
LastN(xs, n) == IF Len(xs) <= n THEN xs ELSE SubSeq(xs, Len(xs) - n + 1, Len(xs))

\* C4: the undo stack never holds more than 30 snapshots; after any
\* number of snapshot pushes with no undo in between it holds exactly the
\* most recent 30 (or all, if fewer) in push order; u undos made after n
\* pushes show the table of the u-th most recent of the kept snapshots,
\* and undos beyond the kept ones change nothing (35 pushes, 30 undos: the
\* table before the 6th command, that is after the 5th).
UndoCapKeepsNewest ==
    /\ Len(undo_stack) <= max_undo
    /\ first[3] = "commands" => undo_stack = LastN(pushed, max_undo)
    /\ (first[3] = "undos" /\ pushed /= <<>>)
           => LET n == Len(pushed)
                  u == Min({first[2], n, max_undo})
              IN  /\ capture_snapshot(StoreNow) = pushed[n - u + 1]
                  /\ first[2] >= Min({n, max_undo}) => undo_stack = <<>>

\* 35 snapshots pushed, then 31 undos: the table after the 5th command.
CapReached ==
    /\ first[3] = "undos"
    /\ Len(pushed) = 35
    /\ first[2] = 31
    /\ capture_snapshot(StoreNow) = pushed[6]
    /\ data = << <<tb \o tb \o tb \o tb \o tb \o ta>> >>

-----------------------------------------------------------------------------
(* The view over a loaded table: the global filter box, the rule row, the  *)
(* saved filter templates, the clear button and the header's sort.         *)

t10 == <<"1", "0">>
t2 == <<"2">>
tY == <<"Y">>

\* One column of numbers and text; two columns of letters in both cases.
ViewGrids ==
    { << <<t10>>, <<t2>>, <<ta>> >>,
      << <<tY, tb>>, <<ta, <<"B">>>> >> }

\* Texts typed into the global filter box and into the rule's value box.
ViewTexts == { <<>>, <<" ", "b">> }
RuleTexts == { <<" ">>, <<"y", " ">>, <<"(">> }
Modes == {"Contains", "Not contains", "Equals", "Starts with", "Ends with", "Regex"}

\* Templates kept in the settings: {"name", "global", "rules"}.
Templates ==
    { [global |-> <<"a">>, rules |-> <<FilterRule(FALSE, 1, "Equals", <<"b">>)>>],
      [global |-> <<>>, rules |-> <<>>] }

MaxRules == 2
MaxViewSteps == 3
InitView == Fresh /\ steps = MaxViewSteps

\* _apply_filter_rule: the value box stripped, the column box's item (all
\* columns, or one of the present columns), the mode box's item.
ApplyFilterRule ==
    \E typed \in RuleTexts, column \in (0 - 1)..(Len(headers) - 1), mode \in Modes :
        LET value == strip(typed)
        IN  /\ Tick
            /\ UNCHANGED bgvars
            /\ Len(rules) < MaxRules
            /\ rules' = IF value = <<>> THEN rules
                        ELSE Append(rules, FilterRule(column < 0, column, mode, value))
            /\ last' = <<"rule", 0, 0>>
            /\ UNCHANGED <<headers, data, row_ids, undo_stack, redo_stack, global_filter,
                           sort_spec, whole_row_sort, origin, pushed, first>>

\* _apply_filter_template
ApplyFilterTemplate ==
    \E template \in Templates :
        /\ Tick
        /\ UNCHANGED bgvars
        /\ global_filter' = stored_global_filter(template.global)
        /\ rules' = template.rules
        /\ last' = <<"template", 0, 0>>
        /\ UNCHANGED <<headers, data, row_ids, undo_stack, redo_stack, sort_spec,
                       whole_row_sort, origin, pushed, first>>

\* _clear_filters: the rules go, and the global box is emptied.
ClearFilters ==
    /\ Tick
    /\ UNCHANGED bgvars
    /\ rules' = <<>>
    /\ global_filter' = stored_global_filter(<<>>)
    /\ last' = <<"clear", 0, 0>>
    /\ UNCHANGED <<headers, data, row_ids, undo_stack, redo_stack, sort_spec,
                   whole_row_sort, origin, pushed, first>>

NextView ==
    \/ OnParseFinished(ViewGrids)
    \/ ApplyGlobalFilter(ViewTexts)
    \/ ApplyFilterRule
    \/ ApplyFilterTemplate
    \/ ClearFilters
    \/ SortView

SpecView == InitView /\ [][NextView]_vars

\* The cells of source row r.
cells(r) == data[r + 1]

\* A rule's verdict on one row's cells, as a statement over the columns.
rule_accepts(rule, values) ==
    IF ~rule.all THEN match_value(values[rule.column + 1], rule)
    ELSE IF rule.mode = "Not contains"
    THEN \A k \in 1..Len(values) : ~Contains(lower(rule.value), lower(values[k]))
    ELSE \E k \in 1..Len(values) : match_value(values[k], rule)

\* The single-column rules name columns the table has.
RulesInRange ==
    \A i \in 1..Len(rules) : rules[i].all \/ rules[i].column \in 0..(Len(headers) - 1)

\* C8: on a table with at least one column a row is visible exactly when
\* (the global text is empty or some column contains it, case-insensitively)
\* and every rule accepts the row: a single-column rule on its column, an
\* all-columns rule if any column matches, all-columns not-contains only
\* if every column does not contain the value.
VisibleIffAccepted ==
    (headers /= <<>> /\ RulesInRange)
        => \A r \in 0..(Len(data) - 1) :
               (r \in VisibleRows)
                   <=> /\ \/ global_filter = <<>>
                          \/ \E k \in 1..Len(cells(r)) :
                                 Contains(lower(global_filter), lower(cells(r)[k]))
                       /\ \A i \in 1..Len(rules) : rule_accepts(rules[i], cells(r))

\* The rule {column 0, not-contains "y"} hides a row whose column 0 holds
\* "Y" although the global filter matches the row, and shows the other row.
HiddenDespiteGlobalMatch ==
    /\ rules = <<FilterRule(FALSE, 0, "Not contains", <<"y">>)>>
    /\ global_filter = <<"b">>
    /\ Len(data) = 2
    /\ cells(0) = <<tY, tb>>
    /\ VisibleRows = {1}

\* A rule in regex mode whose pattern does not compile.
invalid_regex(rule) == rule.mode = "Regex" /\ re_search(rule.value, <<>>) = "error"
HasInvalidRegex(rs) == \E i \in 1..Len(rs) : invalid_regex(rs[i])

\* C9: while a regex rule with an invalid pattern is present, on one
\* column or on all, no row is visible; when the rules are removed the
\* rows the global filter accepts are visible again.
InvalidRegexHidesRows ==
    /\ [](HasInvalidRegex(rules) => VisibleRows = {})
    /\ [][(HasInvalidRegex(rules) /\ rules' = <<>> /\ headers' /= <<>>)
             => VisibleRows' =
                    {r \in 0..(Len(data') - 1) :
                        \/ global_filter' = <<>>
                        \/ \E k \in 1..Len(data'[r + 1]) :
                               Contains(lower(global_filter'), lower(data'[r + 1][k]))}]_vars

\* An invalid regex rule on one column of a loaded table hides every row.
InvalidRegexPresent ==
    /\ Len(data) = 3
    /\ rules = <<FilterRule(FALSE, 0, "Regex", <<"(">>)>>
    /\ VisibleRows = {}

\* The value of a text's leading run of decimal digits after leading
\* blanks, or -1 when it has none.
RECURSIVE digits_value(_, _)
digits_value(s, acc) ==
    IF s /= <<>> /\ Head(s) \in {"0", "1", "2"}
    THEN digits_value(Tail(s), 10 * acc + (Ord(Head(s)) - Ord("0")))
    ELSE acc
RECURSIVE numeric_prefix(_)
numeric_prefix(s) ==
    IF s = <<>> THEN 0 - 1
    ELSE IF Head(s) = " " THEN numeric_prefix(Tail(s))
    ELSE IF Head(s) \in {"0", "1", "2"} THEN digits_value(s, 0)
    ELSE 0 - 1

\* The numeric-prefix-aware order of two texts.
prefix_less(a, b) ==
    LET na == numeric_prefix(a)
        nb == numeric_prefix(b)
    IN  IF na >= 0 /\ nb >= 0 THEN (na < nb \/ (na = nb /\ StrLess(a, b)))
        ELSE IF na >= 0 THEN TRUE
        ELSE IF nb >= 0 THEN FALSE
        ELSE StrLess(a, b)

\* C10: a view sorted on a data column shows its rows in the order of the
\* numeric-prefix-aware comparator, ascending, or in exactly the reverse
\* when descending.
SortedByNumericPrefix ==
    LET shown == view_rows(StoreNow, global_filter, rules, whole_row_sort,
                           sort_spec[1], sort_spec[2])
        c == sort_spec[1]
    IN  (c >= 1 /\ c <= Len(headers))
            => \A i \in 1..(Len(shown) - 1) :
                   IF sort_spec[2]
                   THEN ~prefix_less(cells(shown[i])[c], cells(shown[i + 1])[c])
                   ELSE ~prefix_less(cells(shown[i + 1])[c], cells(shown[i])[c])

-----------------------------------------------------------------------------
(* The batch tools on the window's current table.                          *)

\* The text s split and right-padded with empty text to m parts.
padded_parts(s, d, m) ==
    LET parts == Split(s, d)
    IN  [k \in 1..m |-> IF k <= Len(parts) THEN parts[k] ELSE <<>>]

\* C11: a scoped split (selected rows or selected cells) of one column,
\* with the original kept or not, leaves the row count unchanged, gives
\* every in-scope row its parts padded with empty text to the maximum part
\* count, and gives every out-of-scope row its unsplit value in the first
\* part column and empty text in the further ones.
ScopedSplitKeepsEveryRow ==
    \A keep_original \in BOOLEAN, scope \in {"Selected Rows", "Selected Cells"},
       selected \in SUBSET VisibleRows, col \in 0..(Len(headers) - 1) :
        LET after == apply_split_operation(WinNow, dash, keep_original, scope,
                                           selected, <<col>>).st
            m == Len(after.headers) - Len(headers) + (IF keep_original THEN 0 ELSE 1)
            at == IF keep_original THEN col + 1 ELSE col
            part(i, k) == after.data[i][at + k]
        IN  /\ Len(after.data) = Len(data)
            /\ m >= 2 =>
                 \A i \in 1..Len(data) :
                     IF (i - 1) \in selected
                     THEN \A k \in 1..m : part(i, k) = padded_parts(data[i][col + 1], dash, m)[k]
                     ELSE /\ part(i, 1) = data[i][col + 1]
                          /\ \A k \in 2..m : part(i, k) = <<>>

-----------------------------------------------------------------------------
(* Properties of the store's column operations on the current store.       *)

\* C12: on a rectangular store, split_column(column, d, keep_original =
\* False) followed by merge_columns of all the part columns with the same
\* d and keep_originals = False gives back, in every row, the column's
\* original text (also in rows with fewer parts than the maximum), and
\* leaves the row count and the other columns as they were.
SplitThenMergeRestores ==
    Rectangular =>
        \A column \in 0..(Len(headers) - 1) :
            LET halves == split_column(StoreNow, column, dash, FALSE)
                m == Len(halves.headers) - Len(headers) + 1
                back == merge_columns(halves, [k \in 1..m |-> column + k - 1], dash, FALSE)
            IN  m >= 2 =>
                    /\ Len(back.data) = Len(data)
                    /\ \A i \in 1..Len(data) : back.data[i] = data[i]

\* The window with the merge tool and the history commands only.
MaxMergeSteps == 4

InitMerge == Fresh /\ steps = MaxMergeSteps

NextMerge ==
    \/ OnParseFinished(WinGrids)
    \/ BatchMerge
    \/ Undo
    \/ Redo

SpecMerge == InitMerge /\ [][NextMerge]_vars

\* C13: a merge asked with fewer than two columns, or in the store with an
\* index outside the current columns, is a no-op: headers, rows, row order and
\* row identifiers are what they were.
RejectedColumns ==
    {q \in SeqsUpTo(ColumnArgs, 2) :
        \/ Len(q) < 2
        \/ \E k \in 1..Len(q) : q[k] < 0 \/ q[k] >= Len(headers)}

MergeRejectedIsNoOp ==
    /\ \A keep_originals \in BOOLEAN, columns \in RejectedColumns :
           merge_columns(StoreNow, columns, dash, keep_originals) = StoreNow
    /\ \A keep_originals \in BOOLEAN, scope \in Scopes, selected \in SUBSET VisibleRows,
          columns \in {q \in CheckedColumns \cup {<<>>} : Len(q) < 2} :
           apply_merge_operation(WinNow, dash, keep_originals, scope, selected, columns).st
               = StoreNow

MergeWasRejected == last[1] = "merge_rejected" /\ data # <<>>

\* C14: reorder_columns(order) changes the store only when order is a
\* permutation of 0..columnCount-1; then new header i is old header order[i]
\* and, in a store whose rows have one cell per header, new cell i of every
\* row is old cell order[i], with the rows' order and identifiers unchanged.
\* Any other argument leaves the store as it was.
Orders == ColumnLists \cup {<<0, 0>>, <<1, 1>>, <<0, 1, 0>>}

-----------------------------------------------------------------------------
(* The grouping dialog.                                                    *)

\* _get_proxy_data(columns): the rows the view shows, in the view's order.
get_proxy_data(st, view, columns) ==
    [i \in 1..Len(view) |-> key_of(st.data[view[i] + 1], columns)]

\* A Counter filled key by key, moving a key counted again to the end: the
\* keys come out in the order of their last occurrence.
RECURSIVE count_keys_last_seen(_, _)
count_keys_last_seen(keys, counter) ==
    IF keys = <<>> THEN counter
    ELSE LET key == Head(keys)
             at == {j \in 1..Len(counter) : counter[j][1] = key}
         IN  count_keys_last_seen(
                 Tail(keys),
                 IF at = {} THEN Append(counter, <<key, 1>>)
                 ELSE LET j == CHOOSE x \in at : TRUE
                      IN  Append(SelectSeq(counter, LAMBDA e : e[1] /= key),
                                 <<key, counter[j][2] + 1>>))

\* counter[key] += 1 for each key: a Counter keeps its keys in the order
\* they were first inserted.  The counter is a sequence of <<key, count>>.
RECURSIVE count_keys(_, _)
count_keys(keys, counter) ==
    IF keys = <<>> THEN counter
    ELSE LET key == Head(keys)
             at == {j \in 1..Len(counter) : counter[j][1] = key}
         IN  count_keys(
                 Tail(keys),
                 IF at = {} THEN Append(counter, <<key, 1>>)
                 ELSE LET j == CHOOSE x \in at : TRUE
                      IN  [counter EXCEPT ![j] = <<key, counter[j][2] + 1>>])

count_header == <<"Count">>

\* GroupDialog._apply_grouping with the columns checked.
apply_grouping(dialog, columns) ==
    IF columns = <<>> THEN [dialog EXCEPT !.checked = columns]
    ELSE LET counter == count_keys([i \in 1..Len(dialog.data) |->
                                       key_of(dialog.data[i], columns)], <<>>)
             result_rows == [j \in 1..Len(counter) |->
                                counter[j][1] \o <<Str(counter[j][2])>>]
             hs == [k \in 1..Len(columns) |-> dialog.headers[columns[k] + 1]]
                       \o <<count_header>>
         IN  [dialog EXCEPT !.checked = columns,
                            !.result_model = set_data(@, result_rows, hs)]

\* GroupDialog(headers, data) as _open_group makes it.
GroupDialog(hs, d) ==
    [headers |-> hs, data |-> d, checked |-> [k \in 1..Len(hs) |-> k - 1],
     result_model |-> Store(<<>>, <<>>, <<>>)]

\* _open_group, then the columns checked and the dialog's button pressed.
OpenGroup ==
    \E C \in SUBSET (0..(Len(headers) - 1)) :
        LET all == [k \in 1..Len(headers) |-> k - 1]
            view == view_rows(StoreNow, global_filter, rules, whole_row_sort,
                              sort_spec[1], sort_spec[2])
            dialog == GroupDialog(headers, get_proxy_data(StoreNow, view, all))
        IN  /\ Tick
            /\ group_dialog' = apply_grouping(dialog, SetAsc(C))
            /\ last' = <<"group", 0, 0>>
            /\ UNCHANGED <<headers, data, row_ids, undo_stack, redo_stack, viewvars,
                           origin, pushed, first, parse_thread, threads, events, qsettings>>

GroupGrids == { << <<tb>>, <<ta>>, <<tb>> >>, << <<tb, ta>>, <<ta, ta>>, <<tb, tb>> >> }
MaxGroupSteps == 4

InitGroup == Fresh /\ steps = MaxGroupSteps

NextGroup ==
    \/ OnParseFinished(GroupGrids)
    \/ SortView
    \/ ApplyGlobalFilter({<<>>, <<"b">>})
    \/ OpenGroup

SpecGroup == InitGroup /\ [][NextGroup]_vars

\* C15: grouping on a non-empty set of key columns gives one output row per
\* distinct key tuple of the input rows: the key values followed by the
\* number of input rows with that key, in the order in which each key first
\* occurs in the input; the counts add up to the number of input rows.
RECURSIVE SumCounts(_, _)
SumCounts(rows, n) ==
    IF rows = <<>> THEN 0
    ELSE (CHOOSE c \in 0..n : Str(c) = Head(rows)[Len(Head(rows))])
             + SumCounts(Tail(rows), n)

GroupsInFirstSeenOrder ==
    LET d == group_dialog.data
        cols == group_dialog.checked
        n == Len(cols)
        keys == [i \in 1..Len(d) |-> key_of(d[i], cols)]
        out == group_dialog.result_model.data
        key(j) == SubSeq(out[j], 1, n)
        first_seen(j) == Min({i \in 1..Len(d) : keys[i] = key(j)})
    IN  cols /= <<>> =>
            /\ Len(out) = Cardinality(Range(keys))
            /\ \A j \in 1..Len(out) :
                   /\ Len(out[j]) = n + 1
                   /\ key(j) \in Range(keys)
                   /\ out[j][n + 1] = Str(Cardinality({i \in 1..Len(d) : keys[i] = key(j)}))
            /\ \A j1, j2 \in 1..Len(out) : j1 < j2 => first_seen(j1) < first_seen(j2)
            /\ SumCounts(out, Len(d)) = Len(d)

GroupedInInputOrder ==
    /\ group_dialog.data = << <<tb>>, <<ta>>, <<tb>> >>
    /\ group_dialog.result_model.data = << <<tb, <<"2">>>>, <<ta, <<"1">>>> >>

-----------------------------------------------------------------------------
(* The parser.  "\n" is the line break.                                    *)

newline == <<"\n">>

\* text.splitlines(): no last line after a final line break.
splitlines(text) ==
    LET pieces == Split(text, newline)
    IN  IF pieces[Len(pieces)] = <<>> THEN SubSeq(pieces, 1, Len(pieces) - 1) ELSE pieces

\* parse_text without the padding of the shorter rows.
parse_text_no_padding(text, delimiter) ==
    LET lines == splitlines(text)
        kept == SelectSeq([i \in 1..Len(lines) |-> strip(lines[i])], LAMBDA l : l /= <<>>)
    IN  [i \in 1..Len(kept) |->
            LET parts == Split(kept[i], delimiter)
            IN  [k \in 1..Len(parts) |-> strip(parts[k])]]

\* parse_text(text, delimiter) for a non-empty delimiter.
parse_text(text, delimiter) ==
    LET lines == splitlines(text)
        kept == SelectSeq([i \in 1..Len(lines) |-> strip(lines[i])], LAMBDA l : l /= <<>>)
        rows == [i \in 1..Len(kept) |->
                    LET parts == Split(kept[i], delimiter)
                    IN  [k \in 1..Len(parts) |-> strip(parts[k])]]
        max_cols == Max({0} \cup {Len(rows[i]) : i \in 1..Len(rows)})
    IN  IF max_cols = 0 THEN <<>>
        ELSE [i \in 1..Len(rows) |->
                 [k \in 1..max_cols |-> IF k <= Len(rows[i]) THEN rows[i][k] ELSE <<>>]]

\* rows_to_text joining the rows with the delimiter instead of a line break.
rows_to_text_one_line(rows, delimiter) ==
    Join(delimiter, [i \in 1..Len(rows) |-> Join(delimiter, rows[i])])

\* rows_to_text(rows, delimiter)
rows_to_text(rows, delimiter) ==
    Join(newline, [i \in 1..Len(rows) |-> Join(delimiter, rows[i])])

\* The grids and delimiters of the round trip.
RoundTripDelimiters == {dash, <<" ">>, tb}
SameWidth(R) == \A i, j \in 1..Len(R) : Len(R[i]) = Len(R[j])
NoBlankRow(R) == \A i \in 1..Len(R) : \E k \in 1..Len(R[i]) : strip(R[i][k]) /= <<>>
PlainCells(R, d) ==
    /\ \A c \in Range(d) : c \notin {" ", "\n"}
    /\ \A i \in 1..Len(R) : \A k \in 1..Len(R[i]) :
           /\ strip(R[i][k]) = R[i][k]
           /\ \A c \in Range(R[i][k]) : c /= "\n" /\ c \notin Range(d)

-----------------------------------------------------------------------------
(* The background parse.  A thread is made by _apply_text with its         *)
(* ParseWorker; pc is where it stands: "started" (run not yet done),       *)
(* "emitted" (finished emitted, the deliveries queued for the foreground), *)
(* "quit" (the thread's loop has ended, isRunning() is False).  applied    *)
(* counts the times _on_parse_finished ran on the worker's result.         *)

\* SettingsManager.get_delimiter(): the stored delimiter; nothing sets it.
get_delimiter == dash

\* A thread reference that never counts as running.
busy_never(pt, ths) == FALSE

\* self._parse_thread and self._parse_thread.isRunning()
busy(pt, ths) == pt /= <<>> /\ ths[pt[1]].pc /= "quit"

\* The worker's finished signal delivered to the thread's quit only.
finished_emit_quit_only(t, d, text) ==
    << [slot |-> "quit", thread |-> t, data |-> <<>>, text |-> <<>>] >>

\* finished.emit(data, text): the queued deliveries to the foreground, in
\* the order of the connections: _on_parse_finished, then the thread's quit.
finished_emit(t, d, text) ==
    << [slot |-> "_on_parse_finished", thread |-> t, data |-> d, text |-> text],
       [slot |-> "quit", thread |-> t, data |-> <<>>, text |-> <<>>] >>

\* Texts pasted: one cell; two lines of one and two fields around a blank
\* line, with blanks around the fields; blank lines only.
ParseTexts ==
    { <<"b">>,
      <<" ", "a", " ", "-", "b", "\n", " ", "\n", "b", " ">>,
      <<" ", "\n">> }

\* parse_text of every text a worker can be given, with the stored
\* delimiter: what run computes, worked out once for each text.
parsed == [text \in ParseTexts |-> parse_text(text, get_delimiter)]

\* _apply_text(text): paste, file load or drop hand over a non-empty text.
ApplyText(texts) ==
    \E text \in texts :
        /\ Tick
        /\ IF busy(parse_thread, threads)
           THEN /\ last' = <<"apply_text_busy", 0, 0>>
                /\ UNCHANGED <<parse_thread, threads>>
           ELSE /\ threads' = Append(threads,
                                     [text |-> text, delimiter |-> get_delimiter,
                                      pc |-> "started", data |-> <<>>, applied |-> 0])
                /\ parse_thread' = <<Len(threads) + 1>>
                /\ last' = <<"apply_text", 0, 0>>
        /\ UNCHANGED <<headers, data, row_ids, undo_stack, redo_stack, viewvars, origin,
                       pushed, first, group_dialog, events, qsettings>>

\* ParseWorker.run in its thread.
WorkerRun ==
    \E t \in 1..Len(threads) :
        LET d == parsed[threads[t].text]
        IN  /\ threads[t].pc = "started"
            /\ threads' = [threads EXCEPT ![t].pc = "emitted", ![t].data = d]
            /\ events' = events \o finished_emit(t, d, threads[t].text)
            /\ last' = <<"run", 0, 0>>
            /\ UNCHANGED <<headers, data, row_ids, undo_stack, redo_stack, viewvars, origin,
                           pushed, first, group_dialog, parse_thread, qsettings, steps>>

\* The foreground event loop delivers finished to _on_parse_finished.
DeliverParseFinished ==
    /\ events /= <<>>
    /\ Head(events).slot = "_on_parse_finished"
    /\ PutWindow(on_parse_finished(WinNow, Head(events).data))
    /\ Reentered
    /\ Command(Len(data) > 0)
    /\ parse_thread' = <<>>
    /\ threads' = [threads EXCEPT ![Head(events).thread].applied = @ + 1]
    /\ events' = Tail(events)
    /\ last' = <<"load", 0, 0>>
    /\ UNCHANGED <<viewvars, group_dialog, qsettings, steps>>

\* The foreground event loop delivers finished to the thread's quit.
DeliverQuit ==
    /\ events /= <<>>
    /\ Head(events).slot = "quit"
    /\ threads' = [threads EXCEPT ![Head(events).thread].pc = "quit"]
    /\ events' = Tail(events)
    /\ last' = <<"quit", 0, 0>>
    /\ UNCHANGED <<headers, data, row_ids, undo_stack, redo_stack, viewvars, origin,
                   pushed, first, group_dialog, parse_thread, qsettings, steps>>

MaxParseSteps == 3

InitParse == Fresh /\ steps = MaxParseSteps

NextParse ==
    \/ ApplyText(ParseTexts)
    \/ WorkerRun
    \/ DeliverParseFinished
    \/ DeliverQuit
    \/ DeleteSelected
    \/ EditCell
    \/ Undo
    \/ Redo

SpecParse == InitParse /\ [][NextParse]_vars

\* The worker and the foreground event loop are scheduled fairly.
SpecParseFair ==
    /\ SpecParse
    /\ WF_vars(WorkerRun)
    /\ WF_vars(DeliverParseFinished)
    /\ WF_vars(DeliverQuit)

\* C16: for every text and non-empty delimiter, parse_text returns one row
\* per line that is non-blank after trimming, every row as long as the
\* largest field count of the non-blank lines (shorter rows padded on the
\* right with empty text), every cell trimmed; when every line is blank the
\* result has no rows.
ParseTextShape ==
    \A t \in 1..Len(threads) :
        threads[t].pc /= "started" =>
            LET rows == threads[t].data
                lines == splitlines(threads[t].text)
                nonblank == SelectSeq(lines, LAMBDA l : strip(l) /= <<>>)
                fields == [i \in 1..Len(nonblank) |-> Split(nonblank[i], threads[t].delimiter)]
                widest == Max({0} \cup {Len(fields[i]) : i \in 1..Len(fields)})
            IN  /\ Len(rows) = Len(nonblank)
                /\ nonblank = <<>> => rows = <<>>
                /\ \A i \in 1..Len(rows) :
                       /\ Len(rows[i]) = widest
                       /\ \A k \in 1..widest :
                              /\ strip(rows[i][k]) = rows[i][k]
                              /\ rows[i][k] = IF k <= Len(fields[i]) THEN strip(fields[i][k])
                                              ELSE <<>>

ParsedWithPadding ==
    \E t \in 1..Len(threads) :
        /\ threads[t].pc /= "started"
        /\ threads[t].data = << <<ta, tb>>, <<tb, <<>>>> >>

\* The threads whose result _on_parse_finished has not received yet.
InFlight == {t \in 1..Len(threads) : threads[t].applied = 0}

\* C18: at most one parse is in flight; a request that arrives while a parse
\* is running is answered busy and leaves no trace (nothing queued, the
\* running parse untouched), and the result _on_parse_finished puts in the
\* store is the running parse's.
OneParseInFlight ==
    /\ [](Cardinality(InFlight) <= 1)
    /\ [][last'[1] = "apply_text_busy" =>
              /\ InFlight /= {}
              /\ UNCHANGED <<headers, data, row_ids, undo_stack, redo_stack,
                             parse_thread, threads, events>>]_vars
    /\ [][last'[1] = "load" =>
              /\ parse_thread /= <<>>
              /\ Head(events).thread = parse_thread[1]
              /\ InFlight = {parse_thread[1]}
              /\ data' = parse_text(threads[parse_thread[1]].text,
                                    threads[parse_thread[1]].delimiter)]_vars

RejectedWhileParsing == last[1] = "apply_text_busy" /\ parse_thread /= <<>>

\* C19: from the acceptance of a request until _on_parse_finished runs, no
\* step but _on_parse_finished itself changes the store's headers, rows or
\* identifiers.
NoMutationInFlight ==
    [][(parse_thread /= <<>> /\ last'[1] /= "load") =>
           UNCHANGED <<headers, data, row_ids>>]_vars

\* C20: with the worker and the foreground loop scheduled fairly, every
\* accepted request is handed back exactly once: its worker leaves the store
\* alone, _on_parse_finished runs once on it and puts
\* parse_text(text, delimiter) of that request in the store, and after that
\* no parse is marked running, so that a new request is accepted.
ParseHandedBackOnce ==
    /\ \A t \in 1..MaxParseSteps :
           (Len(threads) >= t) ~> (Len(threads) >= t /\ threads[t].applied = 1)
    /\ [](\A t \in 1..Len(threads) : threads[t].applied <= 1)
    /\ [][last'[1] = "run" => UNCHANGED <<headers, data, row_ids>>]_vars
    /\ [][last'[1] = "load" =>
              LET t == Head(events).thread
              IN  /\ threads[t].applied = 0 /\ threads'[t].applied = 1
                  /\ data' = parse_text(threads[t].text, threads[t].delimiter)
                  /\ ~busy(parse_thread', threads')]_vars

ParseResultStored ==
    \E t \in 1..Len(threads) :
        /\ threads[t].applied = 1
        /\ parse_thread = <<>>
        /\ data = threads[t].data
        /\ Len(data) = 2

-----------------------------------------------------------------------------
(* The store's row identifiers.                                            *)

\* xs is ys with some of its entries left out.
RECURSIVE IsSubseq(_, _)
IsSubseq(xs, ys) ==
    IF xs = <<>> THEN TRUE
    ELSE IF ys = <<>> THEN FALSE
    ELSE IF Head(xs) = Head(ys) THEN IsSubseq(Tail(xs), Tail(ys))
    ELSE IsSubseq(xs, Tail(ys))

\* C21: after set_data with N rows the row at position i has identifier i,
\* whatever the identifiers were; no other store operation gives a row a new
\* identifier: remove_rows only drops identifiers, sort only moves them, the
\* column and cell operations leave them as they are.
OnlySetDataNumbers ==
    /\ \A d \in Grids, h \in HeaderLists :
           LET after == set_data(StoreNow, d, h)
           IN  /\ Len(after.data) = Len(d)
               /\ after.row_ids = [i \in 1..Len(d) |-> i]
    /\ \A rows \in RowLists : IsSubseq(remove_rows(StoreNow, rows).row_ids, row_ids)
    /\ \A column \in 0..(MaxCols + 1), reverse \in BOOLEAN :
           LET after == sort(StoreNow, column, reverse)
           IN  /\ Len(after.row_ids) = Len(row_ids)
               /\ \A id \in Range(row_ids) :
                      Cardinality({i \in 1..Len(row_ids) : after.row_ids[i] = id})
                          = Cardinality({i \in 1..Len(row_ids) : row_ids[i] = id})
    /\ \A row \in RowArgs, column \in 0..(MaxCols + 1), value \in EditValues :
           setData(StoreNow, row, column, value).row_ids = row_ids
    /\ \A order \in ColumnLists : reorder_columns(StoreNow, order).row_ids = row_ids
    /\ \A index \in ColumnArgs, values \in InsertedColumns(Len(data)) :
           insert_columns(StoreNow, index, <<hy>>, <<values>>).row_ids = row_ids
    /\ \A columns \in ColumnLists : remove_columns(StoreNow, columns).row_ids = row_ids
    /\ \A column \in ColumnArgs, keep \in BOOLEAN :
           split_column(StoreNow, column, dash, keep).row_ids = row_ids
    /\ \A columns \in ColumnLists, keep \in BOOLEAN :
           merge_columns(StoreNow, columns, dash, keep).row_ids = row_ids
    /\ \A column \in ColumnArgs, name \in HeaderNames :
           rename_column(StoreNow, column, name).row_ids = row_ids
    /\ \A h \in HeaderLists : set_headers(StoreNow, h).row_ids = row_ids

\* A sort has left the identifiers out of the order 1..N: set_data from here
\* has identifiers to replace, the other operations identifiers to keep.
NumberingDisturbed ==
    /\ Len(row_ids) = 2
    /\ row_ids[1] > row_ids[2]

-----------------------------------------------------------------------------
(* Failing store mutations.                                                *)

\* C22: insert_columns is all-or-nothing: either the header and a cell in
\* every row are inserted, or (the value column has fewer entries than there
\* are rows, or no value column is supplied) headers and rows stay exactly
\* as they were.
InsertIsAllOrNothing ==
    \A index \in ColumnArgs,
       columns_data \in {<<values>> : values \in InsertedColumns(Len(data))} \cup {<<>>} :
        LET after == insert_columns(StoreNow, index, <<hy>>, columns_data)
        IN  \/ after = StoreNow
            \/ /\ Len(after.headers) = Len(headers) + 1
               /\ Len(after.data) = Len(data)
               /\ \A i \in 1..Len(data) : Len(after.data[i]) = Len(data[i]) + 1

-----------------------------------------------------------------------------
(* Rows and their identifiers.                                             *)

\* The store's rows, each with its identifier.
pairs(st) == [i \in 1..Len(st.data) |-> <<st.row_ids[i], st.data[i]>>]

\* C23: the store has one identifier per row and no identifier twice;
\* remove_rows leaves the remaining rows with their identifiers, in order,
\* and sort moves every identifier with its row.
IdentifiersFollowRows ==
    /\ Len(row_ids) = Len(data)
    /\ NoDup(row_ids)
    /\ \A rows \in RowLists :
           LET after == remove_rows(StoreNow, rows)
           IN  /\ Len(after.row_ids) = Len(after.data)
               /\ IsSubseq(pairs(after), pairs(StoreNow))
    /\ \A column \in 0..(MaxCols + 1), reverse \in BOOLEAN :
           LET after == sort(StoreNow, column, reverse)
           IN  /\ Len(after.row_ids) = Len(after.data)
               /\ Len(after.data) = Len(data)
               /\ Range(pairs(after)) = Range(pairs(StoreNow))

RowRemovedOfThree == Len(data) = 2 /\ Len(row_ids) = 2 /\ 3 \in Range(row_ids)

-----------------------------------------------------------------------------
(* Settings and session.  A stored value is JSON text; the JSON read here  *)
(* is the part of it the stored texts below are written in: a list of      *)
(* quoted strings separated by ", ", the empty object, a number.  A Python *)
(* value is [shape, items]: a list with its items, a dict (empty), a       *)
(* number, or None.                                                        *)

PyNone == [shape |-> "None", items |-> <<>>]
PyList(items) == [shape |-> "list", items |-> items]
PyDict == [shape |-> "dict", items |-> <<>>]
PyNumber == [shape |-> "number", items |-> <<>>]

quote == <<"\"">>

\* json.dumps(files) for a list of strings
json_dumps(items) ==
    <<"[">> \o Join(<<",", " ">>, [i \in 1..Len(items) |-> quote \o items[i] \o quote])
            \o <<"]">>

\* json.loads(text): ok is FALSE where it raises JSONDecodeError.
json_loads(text) ==
    LET inner == SubSeq(text, 2, Len(text) - 1)
        pieces == Split(inner, <<",", " ">>)
        quoted(q) == /\ Len(q) >= 2
                     /\ q[1] = "\"" /\ q[Len(q)] = "\""
                     /\ \A k \in 2..(Len(q) - 1) : q[k] /= "\""
    IN  IF text = <<"{", "}">> THEN [ok |-> TRUE, value |-> PyDict]
        ELSE IF text /= <<>> /\ \A k \in 1..Len(text) : text[k] \in {"0", "1", "2"}
        THEN [ok |-> TRUE, value |-> PyNumber]
        ELSE IF Len(text) >= 2 /\ text[1] = "[" /\ text[Len(text)] = "]"
        THEN IF inner = <<>> THEN [ok |-> TRUE, value |-> PyList(<<>>)]
             ELSE IF \A i \in 1..Len(pieces) : quoted(pieces[i])
             THEN [ok |-> TRUE,
                   value |-> PyList([i \in 1..Len(pieces) |->
                                        SubSeq(pieces[i], 2, Len(pieces[i]) - 1)])]
             ELSE [ok |-> FALSE, value |-> PyNone]
        ELSE [ok |-> FALSE, value |-> PyNone]

\* "not value" is False
truthy(value) == value.present /\ value.text /= <<>>

\* The getters that answer a list: [] without a value, on a JSONDecodeError
\* and for JSON that is no list.
loaded_list(value) ==
    IF ~truthy(value) THEN PyList(<<>>)
    ELSE LET r == json_loads(value.text)
         IN  IF ~r.ok THEN PyList(<<>>)
             ELSE IF r.value.shape = "list" THEN r.value ELSE PyList(<<>>)

get_filters(qs) == loaded_list(qs["filters/active"])
get_filter_templates(qs) == loaded_list(qs["filters/templates"])
get_recent_files(qs) == loaded_list(qs["session/recent_files"])
get_last_files(qs) == loaded_list(qs["session/last_files"])

\* get_export_templates: [] without a value; with one, the function ends
\* without a return statement.
get_export_templates(qs) ==
    IF ~truthy(qs["export/templates"]) THEN PyList(<<>>) ELSE PyNone

get_plugin_settings(qs) ==
    LET value == qs["plugins/settings"]
    IN  IF ~truthy(value) THEN PyDict
        ELSE LET r == json_loads(value.text)
             IN  IF ~r.ok THEN PyDict
                 ELSE IF r.value.shape = "dict" THEN r.value ELSE PyDict

\* get_column_state: whatever json.loads returns.
get_column_state(qs) ==
    LET value == qs["columns/state"]
    IN  IF ~truthy(value) THEN PyNone
        ELSE LET r == json_loads(value.text)
             IN  IF ~r.ok THEN PyNone ELSE r.value

set_recent_files(qs, files) ==
    [qs EXCEPT !["session/recent_files"] = stored(json_dumps(files))]

max_recent == 10

\* add_recent_file that does not look for the path in the list.
add_recent_file_no_dedup(qs, path) ==
    LET files == get_recent_files(qs).items
    IN  set_recent_files(qs, Take(<<path>> \o files, max_recent))

\* SessionManager.add_recent_file(path)
add_recent_file(qs, path) ==
    LET files == get_recent_files(qs).items
        at == {i \in 1..Len(files) : files[i] = path}
        removed == IF at = {} THEN files ELSE DelAt(files, Min(at) - 1)
    IN  set_recent_files(qs, Take(<<path>> \o removed, max_recent))

\* Paths of files opened, one more than the list keeps.
RecentPaths ==
    << <<"a">>, <<"b">>, <<"c">>, <<"x">>, <<"y">>, <<"z">>,
       <<"A">>, <<"B">>, <<"Y">>, <<"0">>, <<"1">> >>

\* A file opened: the oldest of the recent list again, or the first path
\* not in the list.
AddRecentFile ==
    LET files == get_recent_files(qsettings).items
        fresh == RecentPaths[Min({i \in 1..Len(RecentPaths) :
                                     RecentPaths[i] \notin Range(files)})]
        oldest == IF files = <<>> THEN {} ELSE {files[Len(files)]}
    IN  \E path \in oldest \cup {fresh} :
            /\ Tick
            /\ qsettings' = add_recent_file(qsettings, path)
            /\ last' = <<"add_recent_file", 0, 0>>
            /\ UNCHANGED <<headers, data, row_ids, undo_stack, redo_stack, viewvars, origin,
                           pushed, first, group_dialog, parse_thread, threads, events>>

MaxRecentSteps == 12

InitRecent == Fresh /\ steps = MaxRecentSteps

NextRecent == AddRecentFile

SpecRecent == InitRecent /\ [][NextRecent]_vars

\* C24: the recent list never holds a path twice nor more than 10 paths, and
\* it is ordered most recently added first: adding a path puts it in front
\* and leaves the other paths in their order (the last one dropped when
\* there would be 11), also when the path was in the list already.
RecentListKept ==
    LET files == get_recent_files(qsettings).items
    IN  /\ NoDup(files)
        /\ Len(files) <= 10
        /\ (last[1] = "add_recent_file") => (files /= <<>>)
        /\ \A path \in Range(RecentPaths) :
               LET after == get_recent_files(add_recent_file(qsettings, path)).items
               IN  /\ after /= <<>> /\ after[1] = path
                   /\ Tail(after) = Take(SelectSeq(files, LAMBDA f : f /= path), 9)

RecentListFull ==
    /\ Len(get_recent_files(qsettings).items) = 10
    /\ <<"a">> \notin Range(get_recent_files(qsettings).items)

\* Texts found under a key: empty, cut short, an object, an empty list, a
\* number, a list of one string.
StoredTexts ==
    { <<>>, <<"[">>, <<"{", "}">>, <<"[", "]">>, <<"1">>,
      <<"[", "\"", "a", "\"", "]">> }

\* The settings file as it is found: any of the texts under any key.
StoreValue ==
    \E key \in SettingsKeys, text \in StoredTexts :
        /\ Tick
        /\ qsettings' = [qsettings EXCEPT ![key] = stored(text)]
        /\ last' = <<"setValue", 0, 0>>
        /\ UNCHANGED <<headers, data, row_ids, undo_stack, redo_stack, viewvars, origin,
                       pushed, first, group_dialog, parse_thread, threads, events>>

MaxSettingsSteps == 2

InitSettings == Fresh /\ steps = MaxSettingsSteps

NextSettings == StoreValue

SpecSettings == InitSettings /\ [][NextSettings]_vars

\* The stored value is absent or empty, is no JSON, or is JSON of another
\* shape than the one asked for.
unusable(value, shape) ==
    \/ ~value.present
    \/ value.text = <<>>
    \/ ~json_loads(value.text).ok
    \/ json_loads(value.text).value.shape /= shape

\* C25: every getter of a JSON-backed value answers its empty value (empty
\* list, empty dict, None for the column state) when the stored value is
\* absent, is malformed JSON or is JSON of the wrong shape.
GettersDegradeToDefault ==
    /\ unusable(qsettings["filters/active"], "list")
           => get_filters(qsettings) = PyList(<<>>)
    /\ unusable(qsettings["filters/templates"], "list")
           => get_filter_templates(qsettings) = PyList(<<>>)
    /\ unusable(qsettings["export/templates"], "list")
           => get_export_templates(qsettings) = PyList(<<>>)
    /\ unusable(qsettings["session/recent_files"], "list")
           => get_recent_files(qsettings) = PyList(<<>>)
    /\ unusable(qsettings["session/last_files"], "list")
           => get_last_files(qsettings) = PyList(<<>>)
    /\ unusable(qsettings["plugins/settings"], "dict")
           => get_plugin_settings(qsettings) = PyDict
    /\ unusable(qsettings["columns/state"], "dict")
           => get_column_state(qsettings) = PyNone

\* The permutations of 1..n.
Arrangements(n) ==
    { p \in [1..n -> 1..n] : \A i, j \in 1..n : p[i] = p[j] => i = j }

\* C26: sort(column, order) permutes the (identifier, row) pairs; afterwards
\* the keys (the identifier for column 0, else the cell's text, the empty
\* text where the row has no such cell) never decrease for ascending order
\* and never increase for descending order, and rows of equal key stay in
\* the order they had, in both directions.
SortIsStablePermutation ==
    \A column \in 0..(MaxCols + 1), reverse \in BOOLEAN :
        LET before == StoreNow
            after == sort(before, column, reverse)
            n == Len(before.data)
            text(st, i) == IF column <= Len(st.data[i]) THEN st.data[i][column] ELSE <<>>
            less(st, i, j) == IF column = 0 THEN st.row_ids[i] < st.row_ids[j]
                              ELSE StrLess(text(st, i), text(st, j))
            same(st, i, j) == ~less(st, i, j) /\ ~less(st, j, i)
        IN  /\ after.headers = before.headers
            /\ Len(after.data) = n /\ Len(after.row_ids) = Len(before.row_ids)
            /\ \E p \in Arrangements(n) :
                   /\ \A i \in 1..n : /\ after.data[i] = before.data[p[i]]
                                      /\ after.row_ids[i] = before.row_ids[p[i]]
                   /\ \A i, j \in 1..n :
                          (i < j /\ same(before, p[i], p[j])) => p[i] < p[j]
            /\ \A i \in 1..(n - 1) :
                   IF reverse THEN ~less(after, i, i + 1) ELSE ~less(after, i + 1, i)

\* Three rows, two of equal text, sorted descending by that text: the equal
\* rows keep first and third in that order, ahead of the smaller one.
TiesSortedDescending ==
    /\ data = << <<tb>>, <<tb>>, <<ta>> >>
    /\ row_ids = <<1, 3, 2>>

-----------------------------------------------------------------------------
(* The proxy's own methods, called one at a time over a loaded table.      *)

\* QSortFilterProxyModel.sort(column, order) re-sorts the proxy's mapping of
\* rows; the source model's sort is not called.
proxy_sort_through_to_store(st, column, descending) == sort(st, column, descending)

proxy_sort(st, column, descending) == st

ProxyRules ==
    { FilterRule(TRUE, 0, "Contains", <<"a">>), FilterRule(FALSE, 0, "Equals", t2) }

ProxyRuleLists ==
    { <<>>, <<FilterRule(TRUE, 0, "Not contains", <<"a">>), FilterRule(FALSE, 1, "Contains", tb)>> }

ProxyCalls ==
    { "set_global_filter", "set_filters", "add_filter", "clear_filters",
      "set_whole_row_sort", "clear_whole_row_sort" }

SetGlobalFilter ==
    \E text \in ViewTexts :
        /\ Tick
        /\ global_filter' = stored_global_filter(text)
        /\ last' = <<"set_global_filter", 0, 0>>
        /\ UNCHANGED <<headers, data, row_ids, undo_stack, redo_stack, rules, sort_spec,
                       whole_row_sort, origin, pushed, first, bgvars>>

SetFilters ==
    \E rs \in ProxyRuleLists :
        /\ Tick
        /\ rules' = rs
        /\ last' = <<"set_filters", 0, 0>>
        /\ UNCHANGED <<headers, data, row_ids, undo_stack, redo_stack, global_filter,
                       sort_spec, whole_row_sort, origin, pushed, first, bgvars>>

AddFilter ==
    \E rule \in ProxyRules :
        /\ Tick
        /\ Len(rules) < MaxRules
        /\ rules' = Append(rules, rule)
        /\ last' = <<"add_filter", 0, 0>>
        /\ UNCHANGED <<headers, data, row_ids, undo_stack, redo_stack, global_filter,
                       sort_spec, whole_row_sort, origin, pushed, first, bgvars>>

ProxyClearFilters ==
    /\ Tick
    /\ rules' = <<>>
    /\ last' = <<"clear_filters", 0, 0>>
    /\ UNCHANGED <<headers, data, row_ids, undo_stack, redo_stack, global_filter,
                   sort_spec, whole_row_sort, origin, pushed, first, bgvars>>

\* set_whole_row_sort(order): the order is kept, then self.sort(0, order).
SetWholeRowSort ==
    \E descending \in BOOLEAN :
        /\ Tick
        /\ whole_row_sort' = IF descending THEN "descending" ELSE "ascending"
        /\ sort_spec' = <<0, descending>>
        /\ Put(proxy_sort(StoreNow, 0, descending))
        /\ last' = <<"set_whole_row_sort", 0, 0>>
        /\ UNCHANGED <<undo_stack, redo_stack, global_filter, rules, origin, pushed,
                       first, bgvars>>

ClearWholeRowSort ==
    /\ Tick
    /\ whole_row_sort' = "none"
    /\ last' = <<"clear_whole_row_sort", 0, 0>>
    /\ UNCHANGED <<headers, data, row_ids, undo_stack, redo_stack, global_filter, rules,
                   sort_spec, origin, pushed, first, bgvars>>

MaxProxySteps == 3

InitProxy == Fresh /\ steps = MaxProxySteps

NextProxy ==
    \/ OnParseFinished(ViewGrids)
    \/ SetGlobalFilter
    \/ SetFilters
    \/ AddFilter
    \/ ProxyClearFilters
    \/ SetWholeRowSort
    \/ ClearWholeRowSort

SpecProxy == InitProxy /\ [][NextProxy]_vars

\* C27: the proxy's six methods leave the store's headers, rows, row order
\* and identifiers as they were, and the rows shown are always rows of the
\* store: all of them when there is no global text, no rule and at least one
\* column.
ViewIsReadOnly ==
    /\ [](/\ VisibleRows \subseteq 0..(Len(data) - 1)
          /\ (global_filter = <<>> /\ rules = <<>> /\ Len(headers) >= 1)
                 => VisibleRows = 0..(Len(data) - 1))
    /\ [][last'[1] \in ProxyCalls => UNCHANGED <<headers, data, row_ids>>]_vars

\* A whole-row sort set over a table of which a rule hides some rows.
WholeRowSortedUnderRule ==
    /\ last[1] = "set_whole_row_sort"
    /\ rules /= <<>>
    /\ VisibleRows /= {}
    /\ VisibleRows /= 0..(Len(data) - 1)

-----------------------------------------------------------------------------
(* The two stacks at the cap: commands on one cell until the history is    *)
(* nearly full, then commands, undos and redos in any order.               *)

MaxStackSteps == 35

InitStacks == Fresh /\ steps = MaxStackSteps

\* The user starts undoing once the history is within one snapshot of the cap.
UndoNearCap ==
    /\ Len(undo_stack) + Len(redo_stack) >= max_undo - 1
    /\ Undo

NextStacks ==
    \/ OpenFile
    \/ BatchText({Prefixing}, {"Entire Table"}, MaxStackSteps)
    \/ UndoNearCap
    \/ Redo

SpecStacks == InitStacks /\ [][NextStacks]_vars

\* C28: the undo stack never holds more than 30 snapshots, and the undo
\* stack and the redo stack together never hold more than 30.
StacksWithinCap ==
    /\ Len(undo_stack) <= max_undo
    /\ Len(undo_stack) + Len(redo_stack) <= max_undo

\* A redo has just put the 30th snapshot back on the undo stack.
RedoneAtCap ==
    /\ last[1] = "redo"
    /\ Len(undo_stack) = max_undo
    /\ redo_stack = <<>>

\* C29: with a snapshot on the undo stack, an undo followed at once by a
\* redo gives back the headers, the rows and both stacks; with a snapshot on
\* the redo stack, so does a redo followed at once by an undo.
UndoRedoRoundTrip ==
    LET same(w) == /\ w.st.headers = headers
                   /\ w.st.data = data
                   /\ w.undo = undo_stack
                   /\ w.redo = redo_stack
    IN  /\ undo_stack /= <<>> => same(redo(undo(WinNow)))
        /\ redo_stack /= <<>> => same(undo(redo(WinNow)))

\* An undo made with a second snapshot still on the undo stack: both round
\* trips start from here.
BothStacksHold ==
    /\ last[1] = "undo"
    /\ undo_stack /= <<>>
    /\ redo_stack /= <<>>

\* C30: a batch merge rejected for fewer than two chosen columns changes
\* neither the undo stack nor the redo stack.
RejectedMergeLeavesStacks ==
    [][last'[1] = "merge_rejected" => UNCHANGED <<undo_stack, redo_stack>>]_vars

=============================================================================
